---- MODULE Spec2Model ----
(***************************************************************************)
(* A model of infoswitch.voip: the Yate external-module session           *)
(* (src/lib/Misc.js, YateExt) and the call-processing channels            *)
(* (src/lib/YateChannel.js, Channel and IVR).                              *)
(*                                                                         *)
(* Two specifications share the variables:                                 *)
(*   SpecSession  - connect/handshake/reconnect/destroy and the carrier    *)
(*                  registry; the channel variables stay at their initial  *)
(*                  values.                                                *)
(*   SpecChannel  - channels, peers, forks and the IVR queue on a session  *)
(*                  that is connected and initialized; the session         *)
(*                  variables stay at that state.                          *)
(***************************************************************************)
EXTENDS Integers, Sequences, FiniteSets, TLC

(***************************************************************************)
(* Bounds of the model.                                                    *)
(***************************************************************************)
MaxSockets == 2      \* sockets the session may dial in one behaviour
MaxExtra == 1        \* confirmations the engine may send beyond the configured count
MaxTrunks == 2       \* length of the list handed to setCarriers
MaxTime == 2         \* clock values Date.now() takes
MaxQueue == 2        \* sounds in an IVR queue
MaxTick == 1         \* callbacks waiting in the nextTick queue
MaxToneTimers == 1   \* tone timers of one IVR pending at once
MaxListeners == 1    \* listeners the host keeps on the channels
MaxCalls == 2        \* calls the host places with makeCall
MaxRoutes == 4       \* routes in a destination handed to fork
MaxHostHandlers == 2  \* handlers the host has subscribed with onChannelEvent
MaxStr == 3          \* bytes in a string handed to escape or unescape
MaxParams == 2       \* parameters of a message handed to encode_message
MaxAuth == 1         \* user.auth requests the engine sends
MaxSteps == 5        \* host calls, engine events and timer expiries of one call scenario

(***************************************************************************)
(* Program constants.                                                      *)
(***************************************************************************)
install_list == <<"call.route", "user.auth", "user.register">>
watch_list == <<"call.execute", "user.login", "user.unregister", "user.notify",
                "chan.connected", "chan.hangup", "chan.notify", "chan.dtmf">>

ReconnectIntervals == {0, 5000}

NoSocket == 0
Sockets == 1..MaxSockets

\* Trunks the host may pass: records of the fields makeLineID reads.  A trunk
\* whose host is empty is invalid and setCarriers skips it.
Trunks == [username : {"u"}, host : {"", "h1", "h2"}]

VARIABLES
    \* ---- YateExt (session) ----
    socket,             \* this._socket: NoSocket or the current socket
    nsock,              \* sockets created so far (net.connect calls)
    sockState,          \* per socket: "none", "connecting", "open", "closed", "destroyed"
    closeListener,      \* per socket: the once('close') listener is attached
    init_complete,      \* this._init_complete
    reconnect_timer,    \* this._reconnect_timer is pending
    reconnectInterval,  \* this.reconnectInterval (configuration)
    confirmListeners,   \* listeners of 'install-confirm'/'watch-confirm': install_or_watch closures
    disconnectedOnce,   \* sockets whose once('disconnected') cleanup is registered
    carriers,           \* this.carriers: entries [account, trunk, active] in insertion order
    destroyed,          \* destroy() has run
    \* ---- Channel / IVR objects and the session's channel-handler table ----
    chans,              \* per channel id: the Channel or IVR object created on it
    handlers,           \* this._chan_handlers: per channel id, its subscriptions in order
    now,                \* Date.now()
    ran,                \* the handlers _runHandlers has called in this step, in order
    tick,               \* process.nextTick queue: channels whose late `end` handler is due
    err,                \* 'error' events emitted on the session by the last step
    \* ---- outgoing calls (makeCall) ----
    outgoing_calls,     \* this._outgoing_calls: per generated id, the saved destination
    call_timers,        \* pending 5 s timers of makeCall: [id, callback] of their closure
    dest_callback,      \* per destination object: its _callback property
    next_id,            \* the counter of makeId
    \* ---- fork ----
    routes,             \* the route list handed to fork
    fp,                 \* the fork params it returned
    \* ---- user.auth ----
    variant,            \* which variant of the 'user.auth' handler is installed
    allowUnregistered,  \* this.allowUnregistered
    authenticator,      \* this.authenticator is set
    users,              \* this.users: per username, the stored user.register message
    auths,              \* per user.auth request: the closure of its handler call
    auth_tick,          \* process.nextTick queue of deferred done(result) calls
    \* ---- wire format ----
    str,                \* the string handed to escape or unescape, as its bytes
    message,            \* the message handed to encode_message
    cout,               \* what the last call of escape, unescape or encode/decode returned
    \* ---- observation ----
    confirms,           \* successful confirmations received on the current socket
    connectedEmitted,   \* 'connected' events emitted since the current socket was dialed
    staleFired,         \* a closure of a replaced socket has set ready and emitted 'connected'
    replacedMid,        \* a socket was replaced after some, but not all, confirmations
    steps,              \* host calls, engine events and timer expiries so far
    out,                \* lines handed to _cmd_send by the last step
    op                  \* the operation the last step performed

sessionVars == <<socket, nsock, sockState, closeListener, init_complete,
                 reconnect_timer, reconnectInterval, confirmListeners,
                 disconnectedOnce, carriers, destroyed, confirms, connectedEmitted,
                 staleFired, replacedMid>>

chanVars == <<chans, handlers, now, tick, err, steps, ran>>

callVars == <<outgoing_calls, call_timers, dest_callback, next_id>>

forkVars == <<routes, fp>>

authVars == <<variant, allowUnregistered, authenticator, users, auths, auth_tick>>

codecVars == <<str, message, cout>>

hostVars == <<callVars, forkVars, authVars, codecVars>>

vars == <<sessionVars, chanVars, hostVars, out, op>>

(***************************************************************************)
(* Helpers.                                                                *)
(***************************************************************************)
RECURSIVE SeqFilterMap(_, _, _)
\* the elements s[i] with keep[i], in order
SeqFilterMap(s, keep, i) ==
    IF i > Len(s) THEN <<>>
    ELSE (IF keep[i] THEN <<s[i]>> ELSE <<>>) \o SeqFilterMap(s, keep, i + 1)

Range(s) == {s[i] : i \in 1..Len(s)}

\* Utils.makeLineID: `${username}:${password}:${auth_name}:${auth_domain}@${host}:${port}`
\* (password, auth_name, auth_domain and port are absent in the modelled trunks)
makeLineID(trunk) ==
    trunk.username \o ":" \o "" \o ":" \o "" \o ":" \o "" \o "@" \o trunk.host \o ":" \o ""

Accounts == {makeLineID(t) : t \in {u \in Trunks : u.host /= ""}}

\* total = Object.keys(install_list).length + Object.keys(watch_list).length
Total == Len(install_list) + Len(watch_list)

\* YateExt.prototype.ready
ready == socket /= NoSocket /\ init_complete

\* YateExt.prototype._cmd_send with this._socket = sock and this._init_complete = initc:
\* the line is written to the socket (to = sock) or suppressed (to = NoSocket)
cmd_send(sock, initc, line, force_before_init) ==
    [line |-> line,
     to |-> IF sock /= NoSocket /\ (initc \/ force_before_init) THEN sock ELSE NoSocket]

\* YateExt.prototype.dispatch
dispatch(sock, initc, msg) == cmd_send(sock, initc, msg, FALSE)

Line(name, id, arg) == [name |-> name, id |-> id, arg |-> arg]

(***************************************************************************)
(* Carrier registry.                                                       *)
(***************************************************************************)
HasAccount(cs, account) == \E i \in 1..Len(cs) : cs[i].account = account

IndexOf(cs, account) == CHOOSE i \in 1..Len(cs) : cs[i].account = account

\* old_carriers[account].active, undefined (falsy) when the account is unknown
ActiveIn(cs, account) == HasAccount(cs, account) /\ cs[IndexOf(cs, account)].active

\* new_carriers[account] = entry: an existing key keeps its place
PutCarrier(cs, entry) ==
    IF HasAccount(cs, entry.account)
    THEN [cs EXCEPT ![IndexOf(cs, entry.account)] = entry]
    ELSE Append(cs, entry)

LoginMsg(account) == Line("user.login", account, "login")
LogoutMsg(account) == Line("user.login", account, "logout")

\* the loop over user_trunks: [new |-> new_carriers, sent |-> login messages dispatched]
RECURSIVE RegisterTrunks(_, _, _, _, _)
RegisterTrunks(user_trunks, old_carriers, initc, i, acc) ==
    IF i > Len(user_trunks) THEN acc
    ELSE LET user_trunk == user_trunks[i] IN
         IF user_trunk.host = ""
         THEN RegisterTrunks(user_trunks, old_carriers, initc, i + 1, acc)
         ELSE LET account == makeLineID(user_trunk)
                  new_trunk == [account |-> account, trunk |-> user_trunk,
                                active |-> ActiveIn(old_carriers, account)]
                  login == IF initc /\ ~new_trunk.active
                           THEN <<LoginMsg(account)>> ELSE <<>>
              IN RegisterTrunks(user_trunks, old_carriers, initc, i + 1,
                                [new |-> PutCarrier(acc.new, new_trunk),
                                 sent |-> acc.sent \o login])

\* the loop over old_carriers: logout messages for the accounts no longer wanted
RECURSIVE DeregisterTrunks(_, _, _, _)
DeregisterTrunks(old_carriers, new_carriers, initc, i) ==
    IF i > Len(old_carriers) \/ ~initc THEN <<>>
    ELSE (IF ~HasAccount(new_carriers, old_carriers[i].account)
          THEN <<LogoutMsg(old_carriers[i].account)>> ELSE <<>>)
         \o DeregisterTrunks(old_carriers, new_carriers, initc, i + 1)

\* YateExt.prototype.setCarriers: [new |-> this.carriers afterwards, sent |-> messages
\* handed to dispatch, in order].  Called by the 'connected' listener with
\* this.carriers itself, every user_trunk is the old entry, whose own `active`
\* equals old_carriers[account].active, so the result is the same.
setCarriers(user_trunks, old_carriers, initc) ==
    LET reg == RegisterTrunks(user_trunks, old_carriers, initc, 1,
                              [new |-> <<>>, sent |-> <<>>])
    IN [new |-> reg.new,
        sent |-> reg.sent \o DeregisterTrunks(old_carriers, reg.new, initc, 1)]

TrunksOf(cs) == [i \in 1..Len(cs) |-> cs[i].trunk]

TrunkLists == UNION {[1..n -> Trunks] : n \in 0..MaxTrunks}

(***************************************************************************)
(* Channel data.                                                           *)
(***************************************************************************)
\* engine channel ids: two SIP legs and one dumb channel
ChanIds == {"sip/1", "sip/2", "dumb/1"}

\* an unset peer
NoPeer == "none"

\* an unset cause (saved_cause undefined, getDisconnectCause() null)
NoCause == [code |-> 0, text |-> ""]

\* the default cause of terminate() and extract_cause
DefaultCause == [code |-> 487, text |-> "Request Terminated"]

\* the cause getDisconnectCause forces for a call with a duration
NormalCause == [code |-> 200, text |-> "Normal call clearing"]

\* sounds a host may enqueue: a file, a tone with a duration, a tone with an
\* invalid duration, an object that is neither
Sounds == {"wave", "tone", "badtone", "junk"}

\* events a host subscribes to through onsafe/oncesafe
HostEvents == {"end", "dtmf"}
HostListeners == [ev : HostEvents, once : BOOLEAN]
ChanOrder == <<"sip/1", "sip/2", "dumb/1">>
RouteIds == {"sip/1"}

\* no Channel object has been created on the id
NoChan ==
    [kind |-> "none", call_route |-> FALSE, routed |-> FALSE, terminated |-> FALSE,
     timer |-> FALSE, peer |-> NoPeer, connectTime |-> 0, disconnectTime |-> 0,
     saved_cause |-> NoCause, listeners |-> {}, queue |-> <<>>, toneTimers |-> 0,
     peerWait |-> 0, peerTimer |-> NoPeer, ended |-> 0, end_cause |-> NoCause,
     \* the engine plays a queued item: one was attached and no onNotify
     \* handler of the IVR has run since
     playing |-> FALSE,
     \* the number of 'peer' events the channel has emitted
     peered |-> 0]

(***************************************************************************)
(* Outgoing calls, fork routes and user authentication: the data.          *)
(***************************************************************************)
\* makeId: a prefix and the value of a counter
makeId(n) == "id" \o ToString(n)

\* the ids makeId generates
CallNames == {makeId(n) : n \in 0..(MaxCalls - 1)}

\* destination objects the host may hand to makeCall
Destinations == {"d1", "d2"}

\* no entry in _outgoing_calls
NoDest == "none"

\* an undefined callback; the callback handed to the call named n is n
NoCallback == "undefined"

\* routes the host may put in a destination: the fields fork reads
RouteHosts == {"h1", "h2"}
ForwardTimeouts == {0, 1000}
Routes == [host : RouteHosts, forward_timeout : ForwardTimeouts]

RouteLists == UNION {[1..n -> Routes] : n \in 1..MaxRoutes}

\* fork has not run
NoFork == [retvalue |-> "", stop |-> "", callto |-> <<>>]

Variants == {"current", "legacy"}

Usernames == {"u1"}

\* no entry in this.users
NoUser == [time |-> 0, expires |-> 0, stored |-> FALSE]

\* the expires parameter of user.register, in seconds
Expiries == {0, 1}

AuthIds == 1..MaxAuth

\* no 'user.auth' handler call for the request
NoAuth == [username |-> "", shortcut |-> FALSE, timer |-> "undefined", pending |-> FALSE,
           promise |-> "none", invoked |-> 0, replies |-> <<>>, late |-> 0]

\* what one call of the authenticator does before it returns
AuthModes == {"callback", "done-now", "promise", "throws"}

\* bytes of the strings longer than one byte: NUL, newline, 0x1F, space, '%',
\* ':', '=', 'A', 'J', 'a', 'b', 'z' and DEL
EscBytes == {0, 10, 31, 32, 37, 58, 61, 65, 74, 97, 98, 122, 127}

\* the string "a:b%c\n"
Example == <<97, 58, 98, 37, 99, 10>>

\* the strings handed to escape and unescape
Strings == UNION {[1..n -> EscBytes] : n \in 0..MaxStr} \cup {<<c>> : c \in 0..127} \cup {Example}

\* an undefined (or null) parameter value
Undefined == <<-1>>

\* parameter keys: "k", "k=k", ":", "%", a newline and "handlers"
ParamKeys == {<<107>>, <<107, 61, 107>>, <<58>>, <<37>>, <<10>>,
              <<104, 97, 110, 100, 108, 101, 114, 115>>}

\* parameter values: "", "=", "a=b", ":%", a newline and undefined
ParamValues == {<<>>, <<61>>, <<97, 61, 98>>, <<58, 37>>, <<10>>, Undefined}

\* the parameters of a message in insertion order, their keys distinct
ParamLists ==
    {ps \in UNION {[1..n -> [key : ParamKeys, value : ParamValues]] : n \in 0..MaxParams} :
        \A i, j \in 1..Len(ps) : ps[i].key = ps[j].key => i = j}

\* "%%>message" and "%%<message"
TypeRequest == <<37, 37, 62, 109, 101, 115, 115, 97, 103, 101>>
TypeReply == <<37, 37, 60, 109, 101, 115, 115, 97, 103, 101>>

\* the messages handed to encode_message: a request carries $time, a reply
\* carries $processed; $name is "n" and $id is "i"
Messages ==
    [type : {TypeRequest}, id : {<<105>>}, time : {7}, processed : {"undefined"},
     name : {<<110>>}, retvalue : {<<>>, <<58, 61>>}, params : ParamLists]
    \cup
    [type : {TypeReply}, id : {<<105>>}, time : {0}, processed : {"true", "false"},
     name : {<<110>>}, retvalue : {<<>>, <<58, 61>>}, params : ParamLists]

NoMsg == [type |-> <<>>, id |-> <<>>, time |-> 0, processed |-> "undefined",
          name |-> <<>>, retvalue |-> <<>>, params |-> <<>>]

\* nothing was encoded or decoded
NoOut == [fn |-> "none"]

InitWire ==
    /\ str = <<>>
    /\ message = NoMsg
    /\ cout = NoOut

\* no call was placed with makeCall
InitCalls ==
    /\ outgoing_calls = [n \in CallNames |-> NoDest]
    /\ call_timers = {}
    /\ dest_callback = [d \in Destinations |-> NoCallback]
    /\ next_id = 0

\* no user.auth was received and no user is registered
InitUsers ==
    /\ users = [u \in Usernames |-> NoUser]
    /\ auths = [a \in AuthIds |-> NoAuth]
    /\ auth_tick = <<>>

\* a session that has placed no call and received no user.auth
InitHost ==
    /\ InitCalls
    /\ routes = <<>>
    /\ fp = NoFork
    /\ variant = "current"
    /\ allowUnregistered = FALSE
    /\ authenticator = FALSE
    /\ InitUsers
    /\ InitWire

(***************************************************************************)
(* Session: connect, handshake, reconnect, destroy.                        *)
(***************************************************************************)
HandshakeLines ==
    <<Line("%%>connect", "global", "")>>
    \o [i \in 1..Len(install_list) |-> Line("%%>uninstall", install_list[i], "")]
    \o [i \in 1..Len(watch_list) |-> Line("%%>unwatch", watch_list[i], "")]
    \o [i \in 1..Len(install_list) |-> Line("%%>install", install_list[i], "10")]
    \o [i \in 1..Len(watch_list) |-> Line("%%>watch", watch_list[i], "")]

\* _kill_socket that leaves the previous socket open
kill_socket_state_keep == sockState

\* _kill_socket that leaves the 'close' listener of the previous socket attached
kill_socket_listeners_keep == closeListener

\* YateExt.prototype._kill_socket: the socket state afterwards
kill_socket_state ==
    IF socket /= NoSocket THEN [sockState EXCEPT ![socket] = "destroyed"] ELSE sockState

\* YateExt.prototype._kill_socket: the 'close' listeners afterwards
kill_socket_listeners ==
    IF socket /= NoSocket THEN [closeListener EXCEPT ![socket] = FALSE] ELSE closeListener

\* connect_fn: kill the previous socket, emit 'connect', dial a new socket and
\* attach its 'connect', 'close' and 'error' listeners
connect_fn ==
    /\ nsock < MaxSockets
    /\ LET s == nsock + 1 IN
        /\ nsock' = s
        /\ socket' = s
        /\ sockState' = [kill_socket_state EXCEPT ![s] = "connecting"]
        /\ closeListener' = [kill_socket_listeners EXCEPT ![s] = TRUE]
    /\ reconnect_timer' = FALSE
    /\ confirms' = 0
    /\ connectedEmitted' = 0
    /\ replacedMid' = (replacedMid \/ (0 < confirms /\ confirms < Total))
    /\ out' = <<>>
    /\ UNCHANGED <<init_complete, reconnectInterval, confirmListeners, disconnectedOnce,
                   carriers, destroyed, staleFired>>

\* YateExt.prototype.connect, called by the host
Connect ==
    /\ ~destroyed
    /\ connect_fn
    /\ op' = [name |-> "connect"]
    /\ UNCHANGED <<chanVars, hostVars>>

\* the reconnect timer armed by the 'close' listener fires
ReconnectTimer ==
    /\ reconnect_timer
    /\ connect_fn
    /\ op' = [name |-> "reconnect"]
    /\ UNCHANGED <<chanVars, hostVars>>

\* socket.on('connect'): the handshake lines are written and the counting
\* listener install_or_watch and the once('disconnected') cleanup are registered
SocketConnect(s) ==
    /\ sockState[s] = "connecting"
    /\ sockState' = [sockState EXCEPT ![s] = "open"]
    /\ out' = [i \in 1..Len(HandshakeLines) |->
                  cmd_send(socket, init_complete, HandshakeLines[i], TRUE)]
    /\ confirmListeners' = Append(confirmListeners, [socket |-> s, total |-> Total])
    /\ disconnectedOnce' = disconnectedOnce \cup {s}
    /\ op' = [name |-> "socket-connect"]
    /\ UNCHANGED <<chanVars, hostVars>>
    /\ UNCHANGED <<socket, nsock, closeListener, init_complete, reconnect_timer,
                   reconnectInterval, carriers, destroyed, confirms, connectedEmitted, staleFired, replacedMid>>

\* the once('disconnected') cleanups: each removes its install_or_watch and
\* marks all trunks inactive
CleanupListeners == 
    SeqFilterMap(confirmListeners,
                 [i \in 1..Len(confirmListeners) |->
                     confirmListeners[i].socket \notin disconnectedOnce], 1)

CleanupCarriers ==
    IF disconnectedOnce = {} THEN carriers
    ELSE [i \in 1..Len(carriers) |-> [carriers[i] EXCEPT !.active = FALSE]]

\* socket.once('close'): emit 'disconnected', schedule the reconnect; a
\* socket that was destroyed emits 'close' as well
SocketClose(s) ==
    /\ sockState[s] \in {"connecting", "open", "destroyed"}
    /\ closeListener[s]
    /\ sockState' = [sockState EXCEPT ![s] = "closed"]
    /\ closeListener' = [closeListener EXCEPT ![s] = FALSE]
    /\ init_complete' = FALSE
    /\ confirmListeners' = CleanupListeners
    /\ carriers' = CleanupCarriers
    /\ disconnectedOnce' = {}
    /\ reconnect_timer' = (reconnectInterval > 0)
    /\ out' = <<>>
    /\ op' = [name |-> "socket-close"]
    /\ UNCHANGED <<chanVars, hostVars>>
    /\ UNCHANGED <<socket, nsock, reconnectInterval, destroyed, confirms, connectedEmitted, staleFired, replacedMid>>

\* install_or_watch testing its counter before the decrement (total-- == 0)
install_or_watch_postdec(L) ==
    IF L.socket /= socket
    THEN [keep |-> FALSE, L |-> L, fire |-> FALSE]
    ELSE [keep |-> TRUE, L |-> [L EXCEPT !.total = @ - 1], fire |-> (L.total = 0)]

\* install_or_watch without the test that its socket is still this._socket
install_or_watch_anysocket(L) ==
    [keep |-> TRUE, L |-> [L EXCEPT !.total = @ - 1], fire |-> (L.total - 1 = 0)]

\* install_or_watch, the closure registered for socket L.socket, run on one
\* 'install-confirm' or 'watch-confirm' event: it removes itself when its socket
\* is no longer this._socket, else counts down and fires at zero
install_or_watch(L) ==
    IF L.socket /= socket
    THEN [keep |-> FALSE, L |-> L, fire |-> FALSE]
    ELSE [keep |-> TRUE, L |-> [L EXCEPT !.total = @ - 1], fire |-> (L.total - 1 = 0)]

\* EventEmitter.emit over the registered closures, in registration order
Ran == [i \in 1..Len(confirmListeners) |-> install_or_watch(confirmListeners[i])]

Fired == {i \in 1..Len(Ran) : Ran[i].fire}

\* the constructor's 'connected' listener, setCarriers(this.carriers), run once
\* for each 'connected' event emitted
RECURSIVE OnConnected(_, _)
OnConnected(n, acc) ==
    IF n = 0 THEN acc
    ELSE LET r == setCarriers(TrunksOf(acc.new), acc.new, TRUE)
         IN OnConnected(n - 1, [new |-> r.new, sent |-> acc.sent \o r.sent])

\* _process_line for a '%%<install' or '%%<watch' line with success = true
ConfirmOk(s, kind) ==
    /\ sockState[s] = "open"
    /\ confirms < Total + MaxExtra
    /\ confirms' = IF s = socket THEN confirms + 1 ELSE confirms
    /\ confirmListeners' =
           [i \in 1..Len(SeqFilterMap(Ran, [j \in 1..Len(Ran) |-> Ran[j].keep], 1)) |->
               SeqFilterMap(Ran, [j \in 1..Len(Ran) |-> Ran[j].keep], 1)[i].L]
    /\ connectedEmitted' = connectedEmitted + Cardinality(Fired)
    /\ staleFired' = (staleFired \/ \E i \in Fired : confirmListeners[i].socket /= s)
    /\ IF Fired /= {}
       THEN /\ init_complete' = TRUE
            /\ LET r == OnConnected(Cardinality(Fired), [new |-> carriers, sent |-> <<>>]) IN
                /\ carriers' = r.new
                /\ out' = [i \in 1..Len(r.sent) |-> dispatch(socket, TRUE, r.sent[i])]
       ELSE UNCHANGED <<init_complete, carriers>> /\ out' = <<>>
    /\ op' = [name |-> kind]
    /\ UNCHANGED <<chanVars, hostVars>>
    /\ UNCHANGED <<socket, nsock, sockState, closeListener, reconnect_timer,
                   reconnectInterval, disconnectedOnce, destroyed, replacedMid>>

InstallConfirm(s) == ConfirmOk(s, "install-confirm")
WatchConfirm(s) == ConfirmOk(s, "watch-confirm")

\* _process_line for a '%%<install' or '%%<watch' line with success = false:
\* an 'error' event, nothing counted
ConfirmFailed(s) ==
    /\ sockState[s] = "open"
    /\ out' = <<>>
    /\ op' = [name |-> "confirm-failed"]
    /\ UNCHANGED <<chanVars, hostVars>>
    /\ UNCHANGED sessionVars

\* YateExt.prototype.destroy
Destroy ==
    /\ ~destroyed
    /\ sockState' = kill_socket_state
    /\ closeListener' = kill_socket_listeners
    /\ socket' = NoSocket
    /\ reconnect_timer' = FALSE
    /\ init_complete' = FALSE
    /\ confirmListeners' = CleanupListeners
    /\ disconnectedOnce' = {}
    /\ carriers' = <<>>
    /\ destroyed' = TRUE
    /\ out' = <<>>
    /\ op' = [name |-> "destroy"]
    /\ UNCHANGED <<chanVars, hostVars>>
    /\ UNCHANGED <<nsock, reconnectInterval, confirms, connectedEmitted, staleFired, replacedMid>>

\* YateExt.prototype.setCarriers called by the host
SetCarriers(D) ==
    /\ ~destroyed
    /\ LET r == setCarriers(D, carriers, init_complete) IN
        /\ carriers' = r.new
        /\ out' = [i \in 1..Len(r.sent) |-> dispatch(socket, init_complete, r.sent[i])]
    /\ op' = [name |-> "setCarriers", D |-> D]
    /\ UNCHANGED <<chanVars, hostVars>>
    /\ UNCHANGED <<socket, nsock, sockState, closeListener, init_complete, reconnect_timer,
                   reconnectInterval, confirmListeners, disconnectedOnce, destroyed,
                   confirms, connectedEmitted, staleFired, replacedMid>>

\* the 'user.login' listener: a reply with $processed updates the trunk's `active`
UserLogin(s, account, operation, processed) ==
    /\ sockState[s] = "open"
    /\ ~destroyed
    /\ processed /\ HasAccount(carriers, account)
    /\ carriers' = [carriers EXCEPT ![IndexOf(carriers, account)].active = (operation /= "logout")]
    /\ carriers' /= carriers
    /\ out' = <<>>
    /\ op' = [name |-> "user.login"]
    /\ UNCHANGED <<chanVars, hostVars>>
    /\ UNCHANGED <<socket, nsock, sockState, closeListener, init_complete, reconnect_timer,
                   reconnectInterval, confirmListeners, disconnectedOnce, destroyed,
                   confirms, connectedEmitted, staleFired, replacedMid>>

InitSession ==
    /\ socket = NoSocket
    /\ nsock = 0
    /\ sockState = [s \in Sockets |-> "none"]
    /\ closeListener = [s \in Sockets |-> FALSE]
    /\ init_complete = FALSE
    /\ reconnect_timer = FALSE
    /\ reconnectInterval \in ReconnectIntervals
    /\ confirmListeners = <<>>
    /\ disconnectedOnce = {}
    /\ carriers = <<>>
    /\ destroyed = FALSE
    /\ confirms = 0
    /\ connectedEmitted = 0
    /\ staleFired = FALSE
    /\ replacedMid = FALSE
    /\ out = <<>>
    /\ op = [name |-> "new"]
    /\ chans = [c \in ChanIds |-> NoChan]
    /\ handlers = [c \in ChanIds |-> <<>>]
    /\ now = 1
    /\ tick = <<>>
    /\ ran = <<>>
    /\ err = 0
    /\ steps = 0
    /\ InitHost

NextSession ==
    \/ Connect
    \/ ReconnectTimer
    \/ \E s \in Sockets : SocketConnect(s)
    \/ \E s \in Sockets : SocketClose(s)
    \/ \E s \in Sockets : InstallConfirm(s)
    \/ \E s \in Sockets : WatchConfirm(s)
    \/ \E s \in Sockets : ConfirmFailed(s)
    \/ Destroy
    \/ \E D \in TrunkLists : SetCarriers(D)
    \/ \E s \in Sockets, a \in Accounts, o \in {"login", "logout"} : UserLogin(s, a, o, TRUE)

SpecSession == InitSession /\ [][NextSession]_vars

(***************************************************************************)
(* Properties of the session.                                              *)
(***************************************************************************)

\* C1: 'connected' has been emitted for the current socket exactly when the
\* successful install-confirm plus watch-confirm events received on it have
\* reached the configured count of installs plus watches (3 + 8); it is emitted
\* once, with the 11th confirmation, and never with fewer.
C1_ConnectedIffAllConfirmed ==
    connectedEmitted = (IF confirms >= Len(install_list) + Len(watch_list) THEN 1 ELSE 0)

\* the 11th confirmation has arrived on a socket dialed after the first
C1_Witness ==
    /\ nsock >= 2
    /\ confirms = Len(install_list) + Len(watch_list)
    /\ connectedEmitted = 1
    /\ op.name \in {"install-confirm", "watch-confirm"}

\* C2: the readiness gate is per socket.  The counter of the current socket has
\* counted only the confirmations received on that socket, a counter of a
\* replaced socket never sets ready or emits 'connected', and after a socket was
\* replaced in mid-handshake 'connected' is emitted only once a fresh 11
\* confirmations have arrived on the new socket.
C2_GatePerSocket ==
    /\ ~staleFired
    /\ \A i \in 1..Len(confirmListeners) :
          confirmListeners[i].socket = socket =>
              confirmListeners[i].total = Len(install_list) + Len(watch_list) - confirms
    /\ (replacedMid /\ connectedEmitted > 0) =>
          confirms >= Len(install_list) + Len(watch_list)

\* a socket was replaced in mid-handshake and the new socket completed its own
C2_Witness ==
    /\ replacedMid
    /\ connectedEmitted = 1
    /\ init_complete
    /\ sockState[socket] = "open"

\* C3: ready() is true exactly when there is a current socket that is up and the
\* handshake on that socket has completed.
C3_ReadyIffHandshakeDone ==
    ready <=> (/\ socket /= NoSocket
               /\ sockState[socket] = "open"
               /\ confirms >= Len(install_list) + Len(watch_list))

\* the line-ids of the valid trunks of a list
LineIds(D) == {makeLineID(D[i]) : i \in {j \in 1..Len(D) : D[j].host /= ""}}

Count(seq, x) == Cardinality({i \in 1..Len(seq) : seq[i] = x})

\* the messages dispatched by a step
Dispatched(o) == [i \in 1..Len(o) |-> o[i].line]

\* C10: setCarriers(D) on a ready session dispatches exactly one login for each
\* line-id of D that was not active in the previous map, one logout for each
\* line-id of the previous map that is absent from D, and nothing else.
C10_LoginsAndLogouts ==
    [][(op'.name = "setCarriers" /\ ready) =>
          /\ \A a \in Accounts :
                /\ Count(Dispatched(out'), LoginMsg(a)) =
                      (IF a \in LineIds(op'.D) /\ ~ActiveIn(carriers, a) THEN 1 ELSE 0)
                /\ Count(Dispatched(out'), LogoutMsg(a)) =
                      (IF HasAccount(carriers, a) /\ a \notin LineIds(op'.D) THEN 1 ELSE 0)
          /\ \A i \in 1..Len(out') :
                Dispatched(out')[i] \in {LoginMsg(a) : a \in Accounts}
                                        \cup {LogoutMsg(a) : a \in Accounts}]_vars

\* the same statement for lists that name no line-id twice
C10_DistinctTrunks ==
    [][(op'.name = "setCarriers" /\ ready
        /\ \A i, j \in 1..Len(op'.D) : op'.D[i] = op'.D[j] => i = j) =>
          /\ \A a \in Accounts :
                /\ Count(Dispatched(out'), LoginMsg(a)) =
                      (IF a \in LineIds(op'.D) /\ ~ActiveIn(carriers, a) THEN 1 ELSE 0)
                /\ Count(Dispatched(out'), LogoutMsg(a)) =
                      (IF HasAccount(carriers, a) /\ a \notin LineIds(op'.D) THEN 1 ELSE 0)]_vars

(***************************************************************************)
(* Channels (src/lib/YateChannel.js).  An operation is an operator from    *)
(* the state S = [ch, h, out, err, tick] to the state it leaves:           *)
(*   ch   - the Channel/IVR objects, h - the session's channel handlers,   *)
(*   out  - the lines handed to _cmd_send, err - 'error' events emitted on *)
(*   the session, tick - the process.nextTick queue.                       *)
(***************************************************************************)

\* Codes.sipResponseToSipCode, the entries the modelled messages use
text2code ==
    [t \in {"OK", "Normal call clearing", "Not Found", "No route to call target",
            "Busy Here", "Request Terminated"} |->
        CASE t = "OK" -> 200
          [] t = "Normal call clearing" -> 200
          [] t = "Not Found" -> 404
          [] t = "No route to call target" -> 404
          [] t = "Busy Here" -> 486
          [] t = "Request Terminated" -> 487]

\* Codes.sipCodeToSipResponse: the inverse, the later phrase winning
code2text ==
    [c \in {200, 404, 486, 487} |->
        CASE c = 200 -> "Normal call clearing"
          [] c = 404 -> "No route to call target"
          [] c = 486 -> "Busy Here"
          [] c = 487 -> "Request Terminated"]

\* chan.hangup messages the engine may send ("" and 0 stand for an absent field)
HangupMsgs ==
    {[cause_sip |-> 0, status |-> "", reason |-> "", reason_sip |-> ""],
     [cause_sip |-> 0, status |-> "", reason |-> "Busy Here", reason_sip |-> ""],
     [cause_sip |-> 404, status |-> "", reason |-> "", reason_sip |-> ""]}

\* causes a host passes to terminate(): none, or Busy Here
HostCauses == {NoCause, [code |-> 486, text |-> "Busy Here"]}

\* extract_cause
extract_cause(chan_hangup) ==
    LET reason0 == IF chan_hangup.reason /= "" THEN chan_hangup.reason
                   ELSE chan_hangup.reason_sip
        reason_sip == IF reason0 = "hangup" THEN "Request Terminated" ELSE reason0
        status == chan_hangup.status
        code_sip == chan_hangup.cause_sip
        best == IF status /= "" /\ status \in DOMAIN text2code
                THEN [code |-> text2code[status], text |-> status]
                ELSE IF reason_sip /= "" /\ reason_sip \in DOMAIN text2code
                THEN [code |-> text2code[reason_sip], text |-> reason_sip]
                ELSE IF code_sip /= 0 /\ code_sip \in DOMAIN code2text
                THEN [code |-> code_sip, text |-> code2text[code_sip]]
                ELSE [code |-> code_sip, text |-> reason_sip]
    IN [code |-> IF best.code = 0 THEN 487 ELSE best.code,
        text |-> IF best.text = "" THEN "Request Terminated" ELSE best.text]

\* pbx.emit('error', ...)
emitError(S) == [S EXCEPT !.err = @ + 1]

\* pbx.dispatch(msg)
send(S, msg) == [S EXCEPT !.out = Append(@, dispatch(socket, init_complete, msg))]

\* the handlers a host subscribes with pbx.onChannelEvent
HostHandlers == {"host.noop", "host.throws", "host.subscribe"}

\* the event names a host subscribes to: two that the watched messages fan
\* out and one of its own, run with triggerChannelEvent
HostSubscriptions == {"onHangup", "onNotify", "onCustom"}

\* YateExt.prototype.onChannelEvent
onChannelEvent(S, chan, event, fn, call) ==
    [S EXCEPT !.h[chan] = Append(@, [ev |-> event, fn |-> fn, call |-> call])]

\* Channel.prototype.getDuration
getDuration(c) ==
    IF c.connectTime = 0 \/ c.disconnectTime = 0 THEN 0
    ELSE c.disconnectTime - c.connectTime

\* getDisconnectCause with the peer rule tried before the duration rule
getDisconnectCause_peerfirst(ch, c) ==
    LET cause == ch[c].saved_cause IN
    IF cause = NoCause THEN NoCause
    ELSE IF cause.code = 487 /\ ch[c].peer /= NoPeer /\ ch[ch[c].peer].saved_cause /= NoCause
    THEN ch[ch[c].peer].saved_cause
    ELSE IF getDuration(ch[c]) > 0 THEN NormalCause
    ELSE cause

\* getDisconnectCause that never asks the peer
getDisconnectCause_own(ch, c) ==
    LET cause == ch[c].saved_cause IN
    IF cause = NoCause THEN NoCause
    ELSE IF getDuration(ch[c]) > 0 THEN NormalCause
    ELSE cause

\* Channel.prototype.getDisconnectCause (NoCause stands for null)
getDisconnectCause(ch, c) ==
    LET cause == ch[c].saved_cause IN
    IF cause = NoCause THEN NoCause
    ELSE IF getDuration(ch[c]) > 0 THEN NormalCause
    ELSE IF cause.code = 487 /\ ch[c].peer /= NoPeer /\ ch[ch[c].peer].saved_cause /= NoCause
    THEN ch[ch[c].peer].saved_cause
    ELSE cause

\* _doTerminate that also drops the peer reference
doTerminate_clearpeer(S, c, cause) ==
    IF S.ch[c].terminated THEN S
    ELSE [S EXCEPT !.ch[c].saved_cause = IF @ = NoCause THEN cause ELSE @,
                   !.ch[c].timer = FALSE,
                   !.ch[c].terminated = TRUE,
                   !.ch[c].disconnectTime = now,
                   !.ch[c].ended = @ + 1,
                   !.ch[c].listeners = {},
                   !.ch[c].peerWait = 0,
                   !.ch[c].peer = NoPeer]

\* _doTerminate that runs again on a terminated channel
doTerminate_again(S, c, cause) ==
    LET marked == [S.ch EXCEPT
                      ![c].saved_cause = IF @ = NoCause THEN cause ELSE @,
                      ![c].timer = FALSE,
                      ![c].terminated = TRUE,
                      ![c].disconnectTime = now]
    IN [S EXCEPT !.ch = [marked EXCEPT
                      ![c].ended = @ + 1,
                      ![c].end_cause = getDisconnectCause(marked, c),
                      ![c].listeners = {},
                      ![c].peerWait = 0]]

\* Channel.prototype._doTerminate
doTerminate(S, c, cause) ==
    IF S.ch[c].terminated THEN S
    ELSE LET marked == [S.ch EXCEPT
                           ![c].saved_cause = IF @ = NoCause THEN cause ELSE @,
                           ![c].timer = FALSE,
                           ![c].terminated = TRUE,
                           ![c].disconnectTime = now]
         IN [S EXCEPT !.ch = [marked EXCEPT
                           \* emit('end', this.getDisconnectCause())
                           ![c].ended = @ + 1,
                           ![c].end_cause = getDisconnectCause(marked, c),
                           \* removeAllListeners()
                           ![c].listeners = {},
                           ![c].peerWait = 0]]

\* Channel.prototype.setPeer
setPeer(S, c, peer) == [S EXCEPT !.ch[c].peer = peer, !.ch[peer].peer = c]

\* Channel.prototype.setTimeout
setTimeout(S, c) ==
    IF S.ch[c].terminated THEN emitError(S)
    ELSE [S EXCEPT !.ch[c].timer = TRUE]

\* terminate without its check of this.terminated
terminate_again(S, c, cause0) ==
    LET cause == IF cause0 = NoCause THEN DefaultCause ELSE cause0
        S1 == doTerminate(S, c, cause)
        S2 == IF ~S1.ch[c].routed /\ S1.ch[c].call_route
              THEN send([S1 EXCEPT !.ch[c].routed = TRUE],
                        Line("call.route", c, "false"))
              ELSE S1
    IN send(S2, Line("call.drop", c, cause.text))

\* Channel.prototype.terminate; cause = NoCause stands for no argument
terminate(S, c, cause0) ==
    IF S.ch[c].terminated THEN S
    ELSE LET cause == IF cause0 = NoCause THEN DefaultCause ELSE cause0
             S1 == doTerminate(S, c, cause)
             S2 == IF ~S1.ch[c].routed /\ S1.ch[c].call_route
                   THEN send([S1 EXCEPT !.ch[c].routed = TRUE],
                             Line("call.route", c, "false"))
                   ELSE S1
         IN send(S2, Line("call.drop", c, cause.text))

\* Channel constructor
newChannel(S, c, call_route) ==
    LET S1 == [S EXCEPT !.ch[c].kind = IF @ = "none" THEN "Channel" ELSE @,
                        !.ch[c].call_route = call_route]
        S2 == onChannelEvent(S1, c, "onDTMF", "Channel.onDTMF", c)
    IN onChannelEvent(S2, c, "onHangup", "Channel.onHangup", c)

\* an IVR constructor that runs the Channel constructor first
newIVR_late(S, c, call_route) ==
    LET S1 == newChannel([S EXCEPT !.ch[c].kind = "IVR"], c, call_route)
        S2 == onChannelEvent(S1, c, "onHangup", "IVR.onHangup", c)
    IN onChannelEvent(S2, c, "onNotify", "IVR.onNotify", c)

\* IVR constructor: its own onHangup and onNotify handlers are registered
\* before the Channel constructor runs
newIVR(S, c, call_route) ==
    LET S1 == [S EXCEPT !.ch[c].kind = "IVR"]
        S2 == onChannelEvent(S1, c, "onHangup", "IVR.onHangup", c)
        S3 == onChannelEvent(S2, c, "onNotify", "IVR.onNotify", c)
    IN newChannel(S3, c, call_route)

\* this.emit('queue-empty'): the once listeners of playNext clear their tone timers
emitQueueEmpty(S, c) ==
    IF S.ch[c].terminated THEN S ELSE [S EXCEPT !.ch[c].toneTimers = 0]

\* the source attached for a queued sound: 'wave/play/'+path or 'tone/'+tone
AttachArg(sound) == IF sound = "wave" THEN "wave/play" ELSE "tone/" \o sound

\* skip() of playNext
skip(S, c) == emitError([S EXCEPT !.ch[c].queue = Tail(@)])

\* pbx.chanPlaywave / pbx.chanTonegen for the item at the head of the queue
attachNext(S, c) ==
    [send(S, Line("chan.attach", c, AttachArg(Head(S.ch[c].queue)))) EXCEPT
        !.ch[c].playing = TRUE]

\* the while loop of IVR.prototype.playNext
RECURSIVE playLoop(_, _)
playLoop(S, c) ==
    IF S.ch[c].queue = <<>> THEN S
    ELSE LET next == Head(S.ch[c].queue) IN
         CASE next = "wave" -> attachNext(S, c)
           [] next = "tone" -> [attachNext(S, c) EXCEPT !.ch[c].toneTimers = @ + 1]
           [] next = "badtone" -> playLoop(skip(emitError(attachNext(S, c)), c), c)
           [] OTHER -> playLoop(skip(S, c), c)

\* IVR.prototype.playNext
playNext(S, c) == IF S.ch[c].terminated THEN emitError(S) ELSE playLoop(S, c)

\* this.emit('peer', ...): every once('peer') listener of enqueue runs playNext
RECURSIVE playNextTimes(_, _, _)
playNextTimes(S, c, n) == IF n = 0 THEN S ELSE playNextTimes(playNext(S, c), c, n - 1)

emitPeer(S, c) ==
    playNextTimes([S EXCEPT !.ch[c].peerWait = 0, !.ch[c].peered = @ + 1], c, S.ch[c].peerWait)

\* IVR.prototype.enqueue
enqueue(S, c, sound) ==
    IF S.ch[c].terminated THEN emitError(S)
    ELSE LET S1 == [S EXCEPT !.ch[c].queue = Append(@, sound)] IN
         IF Len(S1.ch[c].queue) = 1
         THEN IF S1.ch[c].peer /= NoPeer THEN playNext(S1, c)
              ELSE [S1 EXCEPT !.ch[c].peerWait = @ + 1]
         ELSE S1

\* IVR.prototype.playTone: without ms the generator is attached directly
playTone(S, c, ms) ==
    IF S.ch[c].terminated THEN emitError(S)
    ELSE IF ~ms THEN send(S, Line("chan.attach", c, "tone/dial"))
    ELSE enqueue(S, c, "tone")

\* Channel.prototype.connectToChannel
connectToChannel(S, c, peer) ==
    IF S.ch[c].terminated THEN emitError(S)
    ELSE IF S.ch[peer].terminated THEN emitError(S)
    ELSE setPeer(send(S, Line("chan.connect", c, peer)), c, peer)

\* Channel.prototype.recordAudio
recordAudio(S, c) ==
    IF S.ch[c].terminated THEN emitError(S)
    ELSE send(S, Line("chan.record", c, "wave/record"))

\* routeToDestination without its check of this.routed
routeToDestination_again(S, c) ==
    IF S.ch[c].terminated THEN emitError(S)
    ELSE IF ~S.ch[c].call_route THEN emitError(S)
    ELSE onChannelEvent(send([S EXCEPT !.ch[c].routed = TRUE], Line("call.route", c, "fork")),
                        c, "onExecuteFork", "route.onExecuteFork", c)

\* Channel.prototype.routeToDestination
routeToDestination(S, c) ==
    IF S.ch[c].terminated THEN emitError(S)
    ELSE IF ~S.ch[c].call_route THEN emitError(S)
    ELSE IF S.ch[c].routed THEN emitError(S)
    ELSE onChannelEvent(send([S EXCEPT !.ch[c].routed = TRUE], Line("call.route", c, "fork")),
                        c, "onExecuteFork", "route.onExecuteFork", c)

\* Channel.prototype.routeToIVR
routeToIVR(S, c) ==
    IF S.ch[c].terminated THEN emitError(S)
    ELSE IF ~S.ch[c].call_route THEN emitError(S)
    ELSE IF S.ch[c].routed THEN emitError(S)
    ELSE onChannelEvent([send(S, Line("call.route", c, "dumb/")) EXCEPT !.ch[c].routed = TRUE],
                        c, "onConnectedOnce", "ivr.onConnectedOnce", c)

\* the onExecuteFork handler of routeToDestination
onExecuteFork(S, call, sip_id) ==
    IF sip_id = NoPeer THEN emitError(S)
    ELSE LET S1 == newChannel(S, sip_id, FALSE)
             S2 == onChannelEvent(S1, sip_id, "onConnected", "fork.onConnected", call)
         IN onChannelEvent(S2, sip_id, "onHangup", "fork.onHangup", call)

\* the onConnected handler of a fork leg
forkOnConnected(S, call, fork_channel, peerid) ==
    IF peerid /= call THEN S
    ELSE LET S1 == setPeer(S, call, fork_channel)
             S2 == [S1 EXCEPT !.ch[call].connectTime = now,
                              !.ch[fork_channel].connectTime = now]
             S3 == IF S2.ch[call].kind = "IVR"
                   THEN send(S2, Line("chan.attach", call, "tone/silence")) ELSE S2
             S4 == setTimeout(S3, fork_channel)
         IN emitPeer(emitPeer(S4, call), fork_channel)

\* an onHangup handler of a fork leg that only records the cause
forkOnHangup_record(S, call, chan_hangup) ==
    [S EXCEPT !.ch[call].saved_cause = extract_cause(chan_hangup)]

\* the onHangup handler of a fork leg
forkOnHangup(S, call, chan_hangup) ==
    LET cause == extract_cause(chan_hangup)
        S1 == [S EXCEPT !.ch[call].saved_cause = cause]
    IN IF cause.code = 486 THEN terminate(S1, call, NoCause) ELSE S1

\* the onConnectedOnce handler of routeToIVR
ivrOnConnected(S, call, dumb_id) ==
    LET S1 == send(S, Line("call.answered", dumb_id, call))
        S2 == newIVR(S1, dumb_id, FALSE)
        S3 == setPeer(S2, call, dumb_id)
        S4 == [S3 EXCEPT !.ch[dumb_id].connectTime = now, !.ch[call].connectTime = now]
        S5 == setTimeout(S4, call)
        S6 == send(S5, Line("chan.attach", dumb_id, "tone/silence"))
    IN [S6 EXCEPT !.ch[call].peerTimer = dumb_id]

\* the onHangup handler of the IVR constructor
ivrOnHangup(S, c) == emitQueueEmpty([S EXCEPT !.ch[c].queue = <<>>], c)

\* the onNotify handler of the IVR constructor
ivrOnNotify(S, c) ==
    LET S1 == [S EXCEPT !.ch[c].queue = IF @ = <<>> THEN @ ELSE Tail(@),
                        !.ch[c].playing = FALSE] IN
    IF S1.ch[c].queue = <<>>
    THEN emitQueueEmpty(send(S1, Line("chan.attach", c, "tone/silence")), c)
    ELSE playNext(S1, c)

\* one subscribed handler run on a message [peerid, hangup]
runHandler(S, hd, chan, msg) ==
    CASE hd.fn = "Channel.onDTMF" ->
            [S EXCEPT !.ch[hd.call].listeners =
                {l \in @ : ~(l.ev = "dtmf" /\ l.once)}]
      [] hd.fn = "Channel.onHangup" -> doTerminate(S, hd.call, extract_cause(msg.hangup))
      [] hd.fn = "IVR.onHangup" -> ivrOnHangup(S, hd.call)
      [] hd.fn = "IVR.onNotify" -> ivrOnNotify(S, hd.call)
      [] hd.fn = "route.onExecuteFork" -> onExecuteFork(S, hd.call, msg.peerid)
      [] hd.fn = "fork.onConnected" -> forkOnConnected(S, hd.call, chan, msg.peerid)
      [] hd.fn = "fork.onHangup" -> forkOnHangup(S, hd.call, msg.hangup)
      [] hd.fn = "ivr.onConnectedOnce" -> ivrOnConnected(S, hd.call, msg.peerid)
      \* handlers of the host: one returns, one throws (the catch of
      \* _runHandlers emits 'error'), one subscribes a further handler
      [] hd.fn = "host.noop" -> S
      [] hd.fn = "host.throws" -> emitError(S)
      [] hd.fn = "host.subscribe" -> onChannelEvent(S, chan, "onNotify", "host.noop", chan)

\* the list _runHandlers walks: this._chan_handlers[chan+'_'+event]
handlerList(S, chan, event) == SelectSeq(S.h[chan], LAMBDA hd : hd.ev = event)

\* the call of list[i]
call(S, chan, event, i, msg) ==
    LET hd == handlerList(S, chan, event)[i]
    IN runHandler([S EXCEPT !.ran = Append(@, [chan |-> chan, ev |-> event, fn |-> hd.fn])],
                  hd, chan, msg)

\* a loop that ends at the first handler that throws
RECURSIVE runList_stop(_, _, _, _, _)
runList_stop(S, i, chan, event, msg) ==
    IF i > Len(handlerList(S, chan, event)) THEN S
    ELSE LET S1 == call(S, chan, event, i, msg)
         IN IF S1.err > S.err THEN S1 ELSE runList_stop(S1, i + 1, chan, event, msg)

\* YateExt.prototype._runHandlers: the loop over the list, whose length is
\* read again at every turn
RECURSIVE runList(_, _, _, _, _)
runList(S, i, chan, event, msg) ==
    IF i > Len(handlerList(S, chan, event)) THEN S
    ELSE runList(call(S, chan, event, i, msg), i + 1, chan, event, msg)

runHandlers(S, chan, event, msg) == runList(S, 1, chan, event, msg)

\* the event names _clearChanHandlers deletes
ClearedEvents ==
    {"onSlaveConnected", "onExecuteFork", "onHangup", "onConnected", "onConnectedOnce",
     "onConnectedAsPeer", "onConnectedAsPeerOnce", "onNotify", "onDTMF", "onExecute"}

\* YateExt.prototype._clearChanHandlers
clearChanHandlers(S, chan) ==
    [S EXCEPT !.h[chan] = SelectSeq(@, LAMBDA hd : hd.ev \notin ClearedEvents)]

(***************************************************************************)
(* The channel operations as steps of a session whose handshake is done.   *)
(***************************************************************************)

\* the state an operation starts from
S0 == [ch |-> chans, h |-> handlers, out |-> <<>>, err |-> 0, tick |-> tick, ran |-> <<>>]

\* the message a channel handler is run on
Msg(peerid, hangup) == [peerid |-> peerid, hangup |-> hangup]

NoHangup == [cause_sip |-> 0, status |-> "", reason |-> "", reason_sip |-> ""]

\* the state an operation leaves, within the bounds of the model
Bounded(S) ==
    /\ Len(S.tick) <= MaxTick
    /\ \A c \in ChanIds :
          /\ Len(S.ch[c].queue) <= MaxQueue
          /\ S.ch[c].toneTimers <= MaxToneTimers
          /\ S.ch[c].peerWait <= MaxQueue
    /\ Cardinality({<<c, l>> : c \in ChanIds, l \in HostListeners} \cap
                   {x \in ChanIds \X HostListeners : x[2] \in S.ch[x[1]].listeners})
          <= MaxListeners
    /\ Cardinality({<<c, i>> \in ChanIds \X (1..(MaxHostHandlers + 1)) :
                        /\ i <= Len(SelectSeq(S.h[c], LAMBDA hd : hd.fn \in HostHandlers))})
          <= MaxHostHandlers

Commit(S, o) ==
    /\ Bounded(S)
    /\ steps < MaxSteps
    /\ steps' = steps + 1
    /\ chans' = S.ch
    /\ handlers' = S.h
    /\ out' = S.out
    /\ err' = S.err
    /\ tick' = S.tick
    /\ ran' = S.ran
    /\ op' = o
    /\ UNCHANGED <<sessionVars, hostVars, now>>

\* the engine names a new channel by the next unused id
Fresh(id) ==
    /\ chans[id].kind = "none"
    /\ \A i \in 1..Len(ChanOrder) :
          ChanOrder[i] = id => \A j \in 1..(i - 1) : chans[ChanOrder[j]].kind /= "none"

\* the host holds a reference to every channel object that was created
Known(c) == chans[c].kind /= "none"

\* the engine has events for the channels it has not hung up; timers and
\* engine events wait for the pending process.nextTick callbacks
Idle == tick = <<>>

\* call.route for an incoming call; handled tells if 'incoming-call' has a listener
CallRouteIncoming(id, handled) ==
    /\ Idle
    /\ Fresh(id)
    /\ LET S1 == newChannel(S0, id, TRUE)
           S2 == IF handled THEN S1 ELSE emitError(terminate(S1, id, NoCause))
       IN Commit(S2, [name |-> "chan"])

\* call.route for an outgoing call placed by makeCall
CallRouteOutgoing(id) ==
    /\ Idle
    /\ Fresh(id)
    /\ Commit(routeToDestination(newIVR(S0, id, TRUE), id),
              [name |-> "chan"])

\* chan.connected
ChanConnected(id, peerid) ==
    /\ Idle
    /\ id /= peerid
    /\ Known(id)
    /\ (\E i \in 1..Len(handlers[id]) : handlers[id][i].ev = "onConnectedOnce")
          => Fresh(peerid)
    /\ LET msg == Msg(peerid, NoHangup)
           P1 == runHandlers(S0, peerid, "onConnectedAsPeer", msg)
           P2 == runHandlers(P1, peerid, "onConnectedAsPeerOnce", msg)
           P3 == [P2 EXCEPT !.h[peerid] =
                     SelectSeq(@, LAMBDA hd : hd.ev /= "onConnectedAsPeerOnce")]
           S1 == runHandlers(P3, id, "onConnected", msg)
           S2 == runHandlers(S1, id, "onConnectedOnce", msg)
           S3 == [S2 EXCEPT !.h[id] = SelectSeq(@, LAMBDA hd : hd.ev /= "onConnectedOnce")]
       IN Commit(S3, [name |-> "chan.connected", id |-> id, peerid |-> peerid])

\* chan.hangup
ChanHangup(id, m) ==
    /\ Idle
    /\ handlers[id] /= <<>>
    /\ Commit(clearChanHandlers(runHandlers(S0, id, "onHangup", Msg(NoPeer, m)), id),
              [name |-> "chan.hangup", id |-> id, hangup |-> m,
               queued |-> Len(chans[id].queue), timers |-> chans[id].toneTimers])

\* chan.notify
ChanNotify(id) ==
    /\ Idle
    /\ Known(id)
    /\ Commit(runHandlers(S0, id, "onNotify", Msg(NoPeer, NoHangup)),
              [name |-> "chan.notify", id |-> id])

\* chan.dtmf
ChanDTMF(id) ==
    /\ Idle
    /\ Known(id)
    /\ Commit(runHandlers(S0, id, "onDTMF", Msg(NoPeer, NoHangup)),
              [name |-> "chan"])

\* call.execute carrying fork.origid; peerid = NoPeer is a failed fork leg
CallExecute(origid, peerid) ==
    /\ Idle
    /\ Known(origid)
    /\ peerid /= origid
    /\ peerid /= NoPeer => Fresh(peerid)
    /\ Commit(runHandlers(S0, origid, "onExecuteFork", Msg(peerid, NoHangup)),
              [name |-> "chan"])

\* the host calls pbx.onChannelEvent(chan, event, cb)
OnChannelEvent(chan, event, fn) ==
    /\ Known(chan)
    /\ Commit(onChannelEvent(S0, chan, event, fn, chan), [name |-> "chan"])

\* the host calls pbx.triggerChannelEvent(chan, 'onCustom')
TriggerChannelEvent(chan) ==
    /\ Known(chan)
    /\ Commit(runHandlers(S0, chan, "onCustom", Msg(NoPeer, NoHangup)), [name |-> "chan"])

\* the host calls terminate(cause)
Terminate(c, cause) ==
    /\ Known(c)
    /\ Commit(terminate(S0, c, cause), [name |-> "terminate", c |-> c, cause |-> cause])

\* the host calls routeToDestination(dest)
RouteToDestination(c) ==
    /\ Known(c)
    /\ Commit(routeToDestination(S0, c), [name |-> "routeToDestination", c |-> c])

\* the host calls routeToIVR()
RouteToIVR(c) ==
    /\ Known(c)
    /\ Commit(routeToIVR(S0, c), [name |-> "routeToIVR", c |-> c])

\* the host calls connectToChannel(peer)
ConnectToChannel(c, peer) ==
    /\ Known(c) /\ Known(peer) /\ c /= peer
    /\ Commit(connectToChannel(S0, c, peer), [name |-> "chan"])

\* the host calls recordAudio(...)
RecordAudio(c) ==
    /\ Known(c)
    /\ Commit(recordAudio(S0, c), [name |-> "chan"])

\* the host calls setTimeout(timeout)
SetTimeout(c) ==
    /\ Known(c)
    /\ Commit(setTimeout(S0, c), [name |-> "chan"])

\* the channel timeout timer set by setTimeout expires
TimerFire(c) ==
    /\ Idle
    /\ chans[c].timer
    /\ LET S1 == [S0 EXCEPT !.ch[c].timer = FALSE]
           S2 == IF S1.ch[c].terminated THEN emitError(S1)
                 ELSE send(S1, Line("call.drop", c, "Payment Required"))
       IN Commit(S2, [name |-> "chan"])

\* the host calls enqueue(sound) on an IVR
Enqueue(c, sound) ==
    /\ chans[c].kind = "IVR"
    /\ Commit(enqueue(S0, c, sound), [name |-> "chan"])

\* the host calls playTone(tone, ms) on an IVR
PlayTone(c, ms) ==
    /\ chans[c].kind = "IVR"
    /\ Commit(playTone(S0, c, ms), [name |-> "chan"])

\* a tone timer of playNext expires
ToneTimerFire(c) ==
    /\ Idle
    /\ chans[c].toneTimers > 0
    /\ LET S1 == [S0 EXCEPT !.ch[c].toneTimers = @ - 1]
           S2 == IF S1.ch[c].terminated THEN emitError(S1)
                 ELSE runHandlers(S1, c, "onNotify", Msg(NoPeer, NoHangup))
       IN Commit(S2, [name |-> "chan"])

\* the 1200 ms timer of routeToIVR expires: 'peer' on the IVR, then on the channel
PeerTimerFire(c) ==
    /\ Idle
    /\ chans[c].peerTimer /= NoPeer
    /\ LET ivr == chans[c].peerTimer
           S1 == [S0 EXCEPT !.ch[c].peerTimer = NoPeer]
       IN Commit(emitPeer(emitPeer(S1, ivr), c), [name |-> "chan"])

\* onsafe/oncesafe as a plain proxy of on()/once()
onsafe_proxy(S, c, ev, once) ==
    [S EXCEPT !.ch[c].listeners = @ \cup {[ev |-> ev, once |-> once]}]

\* Channel.prototype.onsafe (once = FALSE) and oncesafe (once = TRUE)
onsafe(S, c, ev, once) ==
    IF ~S.ch[c].terminated
    THEN [S EXCEPT !.ch[c].listeners = @ \cup {[ev |-> ev, once |-> once]}]
    ELSE IF ev = "end" THEN [S EXCEPT !.tick = Append(@, c)]
    ELSE emitError(S)

OnSafe(c, ev, once) ==
    /\ Known(c)
    /\ Commit(onsafe(S0, c, ev, once), [name |-> "onsafe", c |-> c, ev |-> ev])

\* a process.nextTick callback of onsafe/oncesafe runs: the handler is called
\* with getDisconnectCause()
NextTick ==
    /\ tick /= <<>>
    /\ tick' = Tail(tick)
    /\ out' = <<>>
    /\ err' = 0
    /\ op' = [name |-> "tick", c |-> Head(tick),
                 cause |-> getDisconnectCause(chans, Head(tick))]
    /\ ran' = <<>>
    /\ UNCHANGED <<sessionVars, hostVars, chans, handlers, now, steps>>

\* Date.now() moves on
Advance ==
    /\ Idle
    /\ now < MaxTime
    /\ steps < MaxSteps
    /\ steps' = steps + 1
    /\ now' = now + 1
    /\ out' = <<>>
    /\ err' = 0
    /\ op' = [name |-> "chan"]
    /\ ran' = <<>>
    /\ UNCHANGED <<sessionVars, hostVars, chans, handlers, tick>>

\* a session whose handshake is done and that has no channel yet
InitReady ==
    /\ socket = 1
    /\ nsock = 1
    /\ sockState = [s \in Sockets |-> IF s = 1 THEN "open" ELSE "none"]
    /\ closeListener = [s \in Sockets |-> s = 1]
    /\ init_complete = TRUE
    /\ reconnect_timer = FALSE
    /\ reconnectInterval = 5000
    /\ confirmListeners = <<[socket |-> 1, total |-> 0]>>
    /\ disconnectedOnce = {1}
    /\ carriers = <<>>
    /\ destroyed = FALSE
    /\ confirms = Total
    /\ connectedEmitted = 1
    /\ staleFired = FALSE
    /\ replacedMid = FALSE
    /\ out = <<>>
    /\ op = [name |-> "install-confirm"]
    /\ chans = [c \in ChanIds |-> NoChan]
    /\ handlers = [c \in ChanIds |-> <<>>]
    /\ now = 1
    /\ tick = <<>>
    /\ ran = <<>>
    /\ err = 0
    /\ steps = 0

InitChannel == InitReady /\ InitHost

NextChannel ==
    \/ \E id \in RouteIds, handled \in BOOLEAN : CallRouteIncoming(id, handled)
    \/ \E id \in RouteIds : CallRouteOutgoing(id)
    \/ \E id \in ChanIds, peerid \in ChanIds : ChanConnected(id, peerid)
    \/ \E id \in ChanIds, m \in HangupMsgs : ChanHangup(id, m)
    \/ \E id \in ChanIds : ChanNotify(id)
    \/ \E id \in ChanIds : ChanDTMF(id)
    \/ \E id \in ChanIds, peerid \in ChanIds \cup {NoPeer} : CallExecute(id, peerid)
    \/ \E c \in ChanIds, cause \in HostCauses : Terminate(c, cause)
    \/ \E c \in ChanIds : RouteToDestination(c)
    \/ \E c \in ChanIds : RouteToIVR(c)
    \/ \E c \in ChanIds, peer \in ChanIds : ConnectToChannel(c, peer)
    \/ \E c \in ChanIds : RecordAudio(c)
    \/ \E c \in ChanIds : SetTimeout(c)
    \/ \E c \in ChanIds : TimerFire(c)
    \/ \E c \in ChanIds, sound \in Sounds : Enqueue(c, sound)
    \/ \E c \in ChanIds, ms \in BOOLEAN : PlayTone(c, ms)
    \/ \E c \in ChanIds : ToneTimerFire(c)
    \/ \E c \in ChanIds : PeerTimerFire(c)
    \/ \E c \in ChanIds, ev \in HostEvents, once \in BOOLEAN : OnSafe(c, ev, once)
    \/ NextTick
    \/ Advance

SpecChannel == InitChannel /\ [][NextChannel]_vars

\* the fan-out of the watched messages to the handlers of the channels and of
\* a host that subscribes its own
NextFanout ==
    \/ \E id \in RouteIds, handled \in BOOLEAN : CallRouteIncoming(id, handled)
    \/ \E id \in RouteIds : CallRouteOutgoing(id)
    \/ \E chan \in RouteIds, event \in HostSubscriptions, fn \in HostHandlers :
          OnChannelEvent(chan, event, fn)
    \/ \E chan \in RouteIds : TriggerChannelEvent(chan)
    \/ \E id \in ChanIds, peerid \in ChanIds : ChanConnected(id, peerid)
    \/ \E id \in ChanIds, m \in HangupMsgs : ChanHangup(id, m)
    \/ \E id \in ChanIds : ChanNotify(id)
    \/ \E id \in ChanIds : ChanDTMF(id)
    \/ \E id \in ChanIds, peerid \in ChanIds \cup {NoPeer} : CallExecute(id, peerid)

SpecFanout == InitChannel /\ [][NextFanout]_vars

(***************************************************************************)
(* Outgoing calls: makeCall, its 5 s timer and the call.route that answers *)
(* the call.execute.                                                       *)
(***************************************************************************)

\* the timer closure of makeCall with a timeout that keeps the saved entry
callInitTimeout_keep(oc, t) ==
    IF oc[t.id] /= NoDest
    THEN [table |-> oc, err |-> 1, cb |-> t.callback]
    ELSE [table |-> oc, err |-> 0, cb |-> NoCallback]

\* the timer closure of makeCall; t is [id, callback] as the closure captured them
callInitTimeout(oc, t) ==
    IF oc[t.id] /= NoDest
    THEN [table |-> [oc EXCEPT ![t.id] = NoDest], err |-> 1, cb |-> t.callback]
    ELSE [table |-> oc, err |-> 0, cb |-> NoCallback]

\* YateExt.prototype.makeCall(destination, callback)
MakeCall(d, hascb) ==
    /\ ready
    /\ next_id < MaxCalls
    /\ LET tmp_id == makeId(next_id)
           callback == IF hascb THEN tmp_id ELSE NoCallback
       IN /\ out' = <<dispatch(socket, init_complete, Line("call.execute", tmp_id, "dumb/"))>>
          /\ dest_callback' = [dest_callback EXCEPT ![d] = callback]
          /\ outgoing_calls' = [outgoing_calls EXCEPT ![tmp_id] = d]
          /\ call_timers' = call_timers \cup {[id |-> tmp_id, callback |-> callback]}
          /\ op' = [name |-> "makeCall", id |-> tmp_id]
    /\ next_id' = next_id + 1
    /\ err' = 0
    /\ UNCHANGED <<sessionVars, forkVars, authVars, codecVars, chans, handlers, now, tick, steps, ran>>

\* the 5 s timer of makeCall expires
CallInitTimeout(t) ==
    /\ Idle
    /\ t \in call_timers
    /\ LET R == callInitTimeout(outgoing_calls, t)
       IN /\ outgoing_calls' = R.table
          /\ err' = R.err
          /\ op' = [name |-> "call-timeout", id |-> t.id, cb |-> R.cb,
                    error |-> IF R.err > 0 THEN "outgoing call init timeout" ELSE ""]
    /\ call_timers' = call_timers \ {t}
    /\ out' = <<>>
    /\ UNCHANGED <<sessionVars, forkVars, authVars, codecVars, chans, handlers, now, tick, steps, ran,
                   dest_callback, next_id>>

\* the outgoing branch of the 'call.route' handler: caller is 'dumb/' and
\* callername is set
CallRouteDumb(id, callername) ==
    /\ Idle
    /\ Fresh(id)
    /\ LET destination == outgoing_calls[callername]
           cb == IF destination = NoDest THEN NoCallback ELSE dest_callback[destination]
           S == IF destination = NoDest
                THEN emitError(send(S0, Line("call.route", id, "false")))
                ELSE routeToDestination(newIVR(S0, id, TRUE), id)
       IN /\ chans' = S.ch
          /\ handlers' = S.h
          /\ out' = S.out
          /\ err' = S.err
          /\ tick' = S.tick
          /\ outgoing_calls' = [outgoing_calls EXCEPT ![callername] = NoDest]
          /\ dest_callback' = IF destination = NoDest THEN dest_callback
                              ELSE [dest_callback EXCEPT ![destination] = NoCallback]
          /\ op' = [name |-> "call.route", callername |-> callername,
                    ivr |-> IF destination = NoDest THEN NoPeer ELSE id,
                    event |-> IF destination = NoDest THEN "" ELSE "outgoing-call",
                    dest |-> destination, cb |-> cb]
    /\ UNCHANGED <<sessionVars, forkVars, authVars, codecVars, now, steps, ran, call_timers, next_id>>

InitCall == InitChannel

NextCall ==
    \/ \E d \in Destinations, hascb \in BOOLEAN : MakeCall(d, hascb)
    \/ \E t \in call_timers : CallInitTimeout(t)
    \/ \E id \in ChanIds, callername \in CallNames : CallRouteDumb(id, callername)

SpecCall == InitCall /\ [][NextCall]_vars

(***************************************************************************)
(* fork: the parameters of the call.route reply that routes to callfork.   *)
(***************************************************************************)

\* the called number of the destination
Called == "100"

\* the callto target of a route: `${proto}/${called_full}@${host}` with the
\* default protocol sip
Target(r, called) == "sip/sip:" \o called \o "@" \o r.host

\* the group separator target written before a route
Separator(r) ==
    IF r.forward_timeout /= 0 THEN "|drop=" \o ToString(r.forward_timeout + 3000)
    ELSE "|"

\* fp['callto.' + index] = value
SetCallto(f, index, value) ==
    [f EXCEPT !.callto = [k \in DOMAIN @ \cup {index} |-> IF k = index THEN value ELSE @[k]]]

\* the for loop of fork: index is the loop variable, which the body also
\* increments after it has written a separator
RECURSIVE forkLoop(_, _, _, _)
forkLoop(rs, called, index, f) ==
    IF index > Len(rs) THEN f
    ELSE LET r == rs[index]
             f1 == IF index > 1 THEN SetCallto(f, index, Separator(r)) ELSE f
             index1 == IF index > 1 THEN index + 1 ELSE index
         IN forkLoop(rs, called, index1 + 1, SetCallto(f1, index1, Target(r, called)))

\* fork(routes, caller, called)
fork(rs, called) ==
    forkLoop(rs, called, 1, [retvalue |-> "fork", stop |-> "busy", callto |-> <<>>])

\* routeToDestination computes the fork params of its reply
Fork ==
    /\ fp = NoFork
    /\ fp' = fork(routes, Called)
    /\ out' = <<>>
    /\ err' = 0
    /\ op' = [name |-> "fork"]
    /\ UNCHANGED <<sessionVars, chanVars, callVars, authVars, codecVars, routes>>

InitFork ==
    /\ InitReady
    /\ InitCalls
    /\ InitUsers
    /\ InitWire
    /\ variant = "current"
    /\ allowUnregistered = FALSE
    /\ authenticator = FALSE
    /\ routes \in RouteLists
    /\ fp = NoFork

NextFork == Fork

SpecFork == InitFork /\ [][NextFork]_vars

(***************************************************************************)
(* user.auth: the handler, the authenticator's deferred done(result), the  *)
(* timer of the callback mode and the promise of the promise mode.  The    *)
(* closure of one handler call is auths[a]: timer is the variable `timer`, *)
(* pending tells if the timer it holds can still fire, promise is the      *)
(* state of the returned promise, invoked counts the authenticator calls,  *)
(* replies is every reply to the request so far, late counts the replies   *)
(* made by done and by the timer.                                          *)
(***************************************************************************)

\* the state a step of the user.auth handling starts from
T0 == [au |-> auths, users |-> users, out |-> <<>>, err |-> 0, tick |-> auth_tick]

\* this.reply(user_auth, processed, {auth_register: false, auth_regfile: false})
replyAuth(T, a, processed) ==
    [T EXCEPT !.out = Append(@, dispatch(socket, init_complete,
                                Line("user.auth", a, IF processed THEN "true" ELSE "false"))),
              !.au[a].replies = Append(@, processed)]

\* allow() of the handler
allow(T, a) == replyAuth(T, a, TRUE)

\* deny(err) of the handler; witherr tells if an error is given
deny(T, a, witherr) ==
    LET T1 == replyAuth(T, a, FALSE) IN
    IF witherr THEN [T1 EXCEPT !.err = @ + 1] ELSE T1

\* new Date((user.$time + +user.expires) * 1000) >= new Date()
notExpired(user) == user.time + user.expires >= now

\* the function handed to the authenticator, without its clearTimeout(timer)
done_noclear(T, a, result) ==
    IF T.au[a].promise /= "none" THEN [T EXCEPT !.err = @ + 1]
    ELSE IF T.au[a].timer = "set"
    THEN LET T1 == [T EXCEPT !.au[a].timer = "null", !.au[a].late = @ + 1]
         IN IF result THEN allow(T1, a) ELSE deny(T1, a, FALSE)
    ELSE T

\* the function handed to the authenticator, as process.nextTick runs it
done(T, a, result) ==
    IF T.au[a].promise /= "none" THEN [T EXCEPT !.err = @ + 1]
    ELSE IF T.au[a].timer = "set"
    THEN LET T1 == [T EXCEPT !.au[a].timer = "null", !.au[a].pending = FALSE,
                             !.au[a].late = @ + 1]
         IN IF result THEN allow(T1, a) ELSE deny(T1, a, FALSE)
    ELSE T

\* the timer callback of the callback mode
authTimeout(T, a) ==
    deny([T EXCEPT !.au[a].timer = "null", !.au[a].pending = FALSE, !.au[a].late = @ + 1],
         a, TRUE)

\* what the handler does with the value the authenticator returned
afterAuthenticator(T, a, mode, result) ==
    CASE mode = "promise" -> [T EXCEPT !.au[a].promise = "pending"]
      [] mode = "done-now" ->
            [T EXCEPT !.tick = Append(@, [a |-> a, result |-> result]),
                      !.au[a].timer = "set", !.au[a].pending = TRUE]
      [] OTHER -> [T EXCEPT !.au[a].timer = "set", !.au[a].pending = TRUE]

\* the authenticator call of the handler and what follows it
authenticate(T, a, mode, result) ==
    LET T1 == [T EXCEPT !.au[a].invoked = @ + 1] IN
    IF mode = "throws" THEN deny(T1, a, TRUE)
    ELSE afterAuthenticator(T1, a, mode, result)

\* the authenticator call of the legacy handler: an exception of the
\* authenticator leaves the handler and _process_line emits it
authenticate_legacy(T, a, mode, result) ==
    LET T1 == [T EXCEPT !.au[a].invoked = @ + 1] IN
    IF mode = "throws" THEN [T1 EXCEPT !.err = @ + 1]
    ELSE afterAuthenticator(T1, a, mode, result)

\* the 'user.auth' handler
user_auth(T, a, u, newcall, mode, result) ==
    IF allowUnregistered THEN allow(T, a)
    ELSE IF ~authenticator THEN deny(T, a, TRUE)
    ELSE IF newcall /\ T.users[u].stored
    THEN IF notExpired(T.users[u]) THEN allow(T, a)
         ELSE deny([T EXCEPT !.users[u] = NoUser], a, TRUE)
    ELSE authenticate(T, a, mode, result)

\* the 'user.auth' handler of the legacy variant
user_auth_legacy(T, a, u, newcall, mode, result) ==
    IF allowUnregistered THEN replyAuth(T, a, TRUE)
    ELSE IF ~authenticator THEN [replyAuth(T, a, FALSE) EXCEPT !.err = @ + 1]
    ELSE LET T1 == IF newcall /\ T.users[u].stored /\ notExpired(T.users[u])
                   THEN replyAuth(T, a, TRUE) ELSE T
         IN authenticate_legacy(T1, a, mode, result)

\* the then and catch handlers of the promise mode
promiseSettled(T, a, outcome) ==
    CASE outcome = "true" -> allow(T, a)
      [] outcome = "false" -> deny(T, a, FALSE)
      [] OTHER -> deny(T, a, TRUE)

CommitAuth(T, o) ==
    /\ auths' = T.au
    /\ users' = T.users
    /\ out' = T.out
    /\ err' = T.err
    /\ auth_tick' = T.tick
    /\ op' = o
    /\ UNCHANGED <<sessionVars, callVars, forkVars, codecVars, chans, handlers, now, tick, steps, ran,
                   variant, allowUnregistered, authenticator>>

\* the engine numbers its requests in order
NextAuth(a) ==
    /\ auths[a].username = ""
    /\ \A b \in AuthIds : b < a => auths[b].username /= ""

\* a user.auth request arrives; mode and result are what the authenticator
\* does if it is called
UserAuth(a, u, newcall, mode, result) ==
    /\ auth_tick = <<>>
    /\ NextAuth(a)
    /\ LET T1 == [T0 EXCEPT !.au[a].username = u,
                            !.au[a].shortcut = /\ newcall
                                               /\ ~allowUnregistered
                                               /\ authenticator
                                               /\ users[u].stored
                                               /\ notExpired(users[u])]
           T2 == IF variant = "legacy"
                 THEN user_auth_legacy(T1, a, u, newcall, mode, result)
                 ELSE user_auth(T1, a, u, newcall, mode, result)
       IN CommitAuth(T2, [name |-> "user.auth", a |-> a])

\* the authenticator calls the function it was handed
AuthDone(a, result) ==
    /\ auths[a].invoked > 0
    /\ Len(auth_tick) < MaxTick
    /\ CommitAuth([T0 EXCEPT !.tick = Append(@, [a |-> a, result |-> result])],
                  [name |-> "done-call", a |-> a])

\* process.nextTick runs a deferred done(result)
AuthTick ==
    /\ auth_tick /= <<>>
    /\ LET d == Head(auth_tick)
       IN CommitAuth(done([T0 EXCEPT !.tick = Tail(@)], d.a, d.result),
                     [name |-> "done", a |-> d.a, result |-> d.result])

\* the timer of the callback mode expires
AuthTimeout(a) ==
    /\ auth_tick = <<>>
    /\ auths[a].pending
    /\ CommitAuth(authTimeout(T0, a), [name |-> "auth-timeout", a |-> a])

\* the promise the authenticator returned is resolved or rejected; after
\* .timeout() has rejected the derived promise the then handler still runs
\* if the authenticator's promise is resolved
PromiseSettle(a, outcome) ==
    /\ auth_tick = <<>>
    /\ \/ auths[a].promise = "pending"
       \/ auths[a].promise = "timedout" /\ outcome \in {"true", "false"}
    /\ CommitAuth(promiseSettled([T0 EXCEPT !.au[a].promise = "settled"], a, outcome),
                  [name |-> "promise", a |-> a])

\* .timeout(this.authenticateTimeout) rejects the derived promise
PromiseTimeout(a) ==
    /\ auth_tick = <<>>
    /\ auths[a].promise = "pending"
    /\ CommitAuth(deny([T0 EXCEPT !.au[a].promise = "timedout"], a, TRUE),
                  [name |-> "promise-timeout", a |-> a])

\* the 'user.register' handler
UserRegister(u, expires) ==
    /\ auth_tick = <<>>
    /\ LET T1 == [T0 EXCEPT !.users[u] = [time |-> now, expires |-> expires, stored |-> TRUE]]
       IN CommitAuth([T1 EXCEPT !.out = <<dispatch(socket, init_complete,
                                                   Line("user.register", u, "true"))>>],
                     [name |-> "user.register", a |-> u])

\* getLocalRoute returned null
NoRoute == [caller |-> "", called |-> ""]

\* the caller number the host passes to getLocalRoute
Caller == "200"

\* getLocalRoute that leaves an expired user in the registry
getLocalRoute_keep(U, caller, called) ==
    IF ~U[called].stored THEN [users |-> U, route |-> NoRoute, expired |-> 0]
    ELSE IF ~notExpired(U[called])
    THEN [users |-> U, route |-> NoRoute, expired |-> 1]
    ELSE [users |-> U, route |-> [caller |-> caller, called |-> called], expired |-> 0]

\* YateExt.prototype.getLocalRoute: the registry it leaves, the route it
\* returns and the number of 'user-expired' events it emits
getLocalRoute(U, caller, called) ==
    IF ~U[called].stored THEN [users |-> U, route |-> NoRoute, expired |-> 0]
    ELSE IF ~notExpired(U[called])
    THEN [users |-> [U EXCEPT ![called] = NoUser], route |-> NoRoute, expired |-> 1]
    ELSE [users |-> U, route |-> [caller |-> caller, called |-> called], expired |-> 0]

\* the host calls getLocalRoute(caller, called)
GetLocalRoute(called) ==
    LET R == getLocalRoute(users, Caller, called)
    IN CommitAuth([T0 EXCEPT !.users = R.users],
                  [name |-> "getLocalRoute", a |-> called, route |-> R.route,
                   expired |-> R.expired])

\* the 'user.unregister' handler
UserUnregister(u) ==
    /\ auth_tick = <<>>
    /\ CommitAuth([T0 EXCEPT !.users[u] = NoUser], [name |-> "user.unregister", a |-> u])

InitAuth ==
    /\ InitReady
    /\ InitCalls
    /\ InitUsers
    /\ InitWire
    /\ routes = <<>>
    /\ fp = NoFork
    /\ variant \in Variants
    /\ allowUnregistered \in BOOLEAN
    /\ authenticator \in BOOLEAN

NextAuthStep ==
    \/ \E a \in AuthIds, u \in Usernames, newcall \in BOOLEAN, mode \in AuthModes,
          result \in BOOLEAN : UserAuth(a, u, newcall, mode, result)
    \/ \E a \in AuthIds, result \in BOOLEAN : AuthDone(a, result)
    \/ AuthTick
    \/ \E a \in AuthIds : AuthTimeout(a)
    \/ \E a \in AuthIds, outcome \in {"true", "false", "reject"} : PromiseSettle(a, outcome)
    \/ \E a \in AuthIds : PromiseTimeout(a)
    \/ \E u \in Usernames, expires \in Expiries : UserRegister(u, expires)
    \/ \E u \in Usernames : UserUnregister(u)
    \/ \E u \in Usernames : GetLocalRoute(u)
    \/ Advance

SpecAuth == InitAuth /\ [][NextAuthStep]_vars

(***************************************************************************)
(* The wire format: escape and unescape of a string, encode_message and    *)
(* decode_message of a message.  A string is the sequence of its bytes.    *)
(***************************************************************************)

\* an escape that lets ':' through
escByte_colon(c) ==
    IF c < 32 THEN <<37, c + 64>>
    ELSE IF c = 37 THEN <<37, 37>>
    ELSE <<c>>

\* what escape appends for the byte c
escByte(c) ==
    IF c < 32 \/ c = 58 THEN <<37, c + 64>>
    ELSE IF c = 37 THEN <<37, 37>>
    ELSE <<c>>

RECURSIVE escape(_)
escape(s) ==
    IF s = <<>> THEN <<>> ELSE escByte(Head(s)) \o escape(Tail(s))

\* String.fromCharCode(n): the code unit n modulo 2^16
fromCharCode(n) == n % 65536

\* what unescape appends for a '%' at index i and where it goes on: buf[++i]
\* past the end is undefined, undefined != 37 holds, and
\* String.fromCharCode(undefined - 64) is the character of code 0
unescapePercent(buf, i) ==
    IF i + 1 > Len(buf) THEN fromCharCode(0)
    ELSE IF buf[i + 1] /= 37 THEN fromCharCode(buf[i + 1] - 64)
    ELSE 37

\* the loop of unescape from index i
RECURSIVE unescapeFrom(_, _)
unescapeFrom(buf, i) ==
    IF i > Len(buf) THEN <<>>
    ELSE IF buf[i] = 37 THEN <<unescapePercent(buf, i)>> \o unescapeFrom(buf, i + 2)
    ELSE <<buf[i]>> \o unescapeFrom(buf, i + 1)

unescape(s) == unescapeFrom(s, 1)

\* s.indexOf(delim) for a one-byte delimiter, 0 when absent
RECURSIVE indexOfFrom(_, _, _)
indexOfFrom(s, delim, i) ==
    IF i > Len(s) THEN 0
    ELSE IF s[i] = delim THEN i
    ELSE indexOfFrom(s, delim, i + 1)

indexOf(s, delim) == indexOfFrom(s, delim, 1)

\* s.split(delim)
RECURSIVE split(_, _)
split(s, delim) ==
    LET index == indexOf(s, delim)
    IN  IF index = 0 THEN <<s>>
        ELSE <<SubSeq(s, 1, index - 1)>> \o split(SubSeq(s, index + 1, Len(s)), delim)

\* splitString(s, delim, 2): at most one cut, at the first delimiter
splitString(s, delim) ==
    LET index == indexOf(s, delim)
    IN  IF index = 0 THEN <<s>>
        ELSE <<SubSeq(s, 1, index - 1), SubSeq(s, index + 1, Len(s))>>

\* the decimal digits of a number, and the number a string of digits denotes
RECURSIVE digits(_)
digits(n) == IF n < 10 THEN <<48 + n>> ELSE digits(n \div 10) \o <<48 + (n % 10)>>

RECURSIVE number(_)
number(s) ==
    IF s = <<>> THEN 0 ELSE 10 * number(SubSeq(s, 1, Len(s) - 1)) + (s[Len(s)] - 48)

\* "true" and "false"
True == <<116, 114, 117, 101>>
False == <<102, 97, 108, 115, 101>>

\* the parameters encode_message appends: every key with a value that is
\* neither undefined nor null, as ':' escape(k) '=' escape(v)
RECURSIVE encodeParams(_)
encodeParams(ps) ==
    IF ps = <<>> THEN <<>>
    ELSE (IF Head(ps).value /= Undefined
          THEN <<58>> \o escape(Head(ps).key) \o <<61>> \o escape(Head(ps).value)
          ELSE <<>>) \o encodeParams(Tail(ps))

encode_message(m) ==
    m.type \o <<58>> \o m.id \o <<58>>
    \o (IF m.processed /= "undefined"
        THEN (IF m.processed = "true" THEN True ELSE False)
        ELSE digits(m.time))
    \o <<58>> \o m.name \o <<58>> \o escape(m.retvalue)
    \o encodeParams(m.params)

\* the properties decode_message sets from parts[i..], a later one replacing
\* an earlier one of the same key; unescape(undefined) throws for a part
\* without '='
RECURSIVE decodeParams(_, _, _)
decodeParams(parts, i, P) ==
    IF i > Len(parts) THEN P
    ELSE LET p == splitString(parts[i], 61)
         IN  IF Len(p) < 2 THEN {[key |-> <<>>, value |-> "TypeError"]}
             ELSE decodeParams(parts, i + 1,
                      {q \in P : q.key /= unescape(p[1])}
                          \cup {[key |-> unescape(p[1]), value |-> unescape(p[2])]})

\* "handlers"
Handlers == <<104, 97, 110, 100, 108, 101, 114, 115>>

decode_message(parts) ==
    [type |-> parts[1],
     id |-> parts[2],
     time |-> IF parts[1] = TypeRequest THEN number(parts[3]) ELSE 0,
     processed |-> IF parts[1] = TypeRequest THEN "undefined"
                   ELSE IF parts[3] = True THEN "true" ELSE "false",
     name |-> parts[4],
     retvalue |-> unescape(parts[5]),
     params |-> {q \in decodeParams(parts, 6, {}) : q.key /= Handlers}]

CommitWire(o) ==
    /\ cout' = o
    /\ out' = <<>>
    /\ err' = 0
    /\ op' = [name |-> o.fn]
    /\ UNCHANGED <<sessionVars, callVars, forkVars, authVars, chans, handlers, now, tick, ran,
                   steps, str, message>>

\* escape(str)
Escape ==
    /\ message = NoMsg
    /\ CommitWire([fn |-> "escape", arg |-> str, value |-> escape(str)])

\* unescape of the given string, or of what escape returned
Unescape ==
    /\ message = NoMsg
    /\ \E s \in {str} \cup (IF cout.fn = "escape" THEN {cout.value} ELSE {}) :
          CommitWire([fn |-> "unescape", arg |-> s, value |-> unescape(s)])

\* encode_message(message)
Encode ==
    /\ message /= NoMsg
    /\ CommitWire([fn |-> "encode", arg |-> message, value |-> encode_message(message)])

\* decode_message(line.split(':')) of the encoded line
Decode ==
    /\ cout.fn = "encode"
    /\ CommitWire([fn |-> "decode", arg |-> cout.value,
                   value |-> decode_message(split(cout.value, 58))])

InitCodec ==
    /\ InitReady
    /\ InitCalls
    /\ InitUsers
    /\ routes = <<>>
    /\ fp = NoFork
    /\ variant = "current"
    /\ allowUnregistered = FALSE
    /\ authenticator = FALSE
    /\ cout = NoOut
    /\ \/ str \in Strings /\ message = NoMsg
       \/ str = <<>> /\ message \in Messages

NextCodec ==
    \/ Escape
    \/ Unescape
    \/ Encode
    \/ Decode

SpecCodec == InitCodec /\ [][NextCodec]_vars

\* the sockets that are dialing or connected
Live == {s \in Sockets : sockState[s] \in {"connecting", "open"}}

\* C22: at most one socket is live, and it is the current one; only the
\* current socket has a 'close' listener; no live socket exists while the
\* reconnect timer is pending, and the 'close' listener arms the timer only
\* when none is pending; a dial leaves the timer cleared and the previous
\* socket destroyed with its 'close' listener detached.
C22_OneLiveSocket ==
    [][/\ Cardinality(Live') <= 1
       /\ Live' \subseteq {socket'}
       /\ \A s \in Sockets : closeListener'[s] => s = socket'
       /\ reconnect_timer' => Live' = {}
       /\ (op'.name = "socket-close" /\ reconnect_timer') => ~reconnect_timer
       /\ nsock' > nsock =>
             /\ ~reconnect_timer'
             /\ socket /= NoSocket =>
                   /\ sockState'[socket] = "destroyed"
                   /\ ~closeListener'[socket]]_vars

\* connect() was called while the first socket was live
C22_Witness ==
    /\ op.name = "connect"
    /\ nsock = 2
    /\ sockState[1] = "destroyed"
    /\ ~closeListener[1]
    /\ sockState[2] = "connecting"

\* C23: destroy() leaves the current socket destroyed, no current socket,
\* ready() false and the once('disconnected') listeners run; after destroy()
\* no socket is dialed, no reconnect timer is pending, no socket is live and
\* ready() stays false, whatever timer or 'close' event follows.
C23_DestroyIsFinal ==
    [][/\ op'.name = "destroy" =>
             /\ socket /= NoSocket => sockState'[socket] = "destroyed"
             /\ socket' = NoSocket
             /\ ~init_complete'
             /\ disconnectedOnce' = {}
             /\ destroyed'
       /\ destroyed =>
             /\ destroyed'
             /\ nsock' = nsock
             /\ op'.name \notin {"connect", "reconnect"}
             /\ ~reconnect_timer'
             /\ socket' = NoSocket
             /\ ~init_complete'
             /\ Live' = {}]_vars

\* destroy() was called while the reconnect timer was pending
C23_Witness ==
    /\ op.name = "destroy"
    /\ destroyed
    /\ reconnectInterval > 0
    /\ \E s \in Sockets : sockState[s] = "destroyed" /\ s = nsock
    /\ ~reconnect_timer

\* C24: a line that is not a handshake line is written to a socket only if
\* that socket is the current one, is connected and has received all the
\* confirmations of its handshake; a line that is not written went to no
\* socket (suppress-line).
C24_WriteGate ==
    [][\A i \in 1..Len(out') :
          (out'[i].to /= NoSocket /\ out'[i].line \notin Range(HandshakeLines)) =>
              /\ out'[i].to = socket'
              /\ sockState'[out'[i].to] = "open"
              /\ confirms' >= Total]_vars

\* C11: setCarriers on a session that is not initialized dispatches nothing
\* and stores the wanted accounts; every step that emits 'connected'
\* dispatches a user.login for every trunk in the carriers map.
C11_ReplayOnConnected ==
    [][/\ (op'.name = "setCarriers" /\ ~init_complete) =>
             /\ out' = <<>>
             /\ {carriers'[i].account : i \in 1..Len(carriers')} = LineIds(op'.D)
       /\ connectedEmitted' > connectedEmitted =>
             \A i \in 1..Len(carriers) :
                 Count(Dispatched(out'), LoginMsg(carriers[i].account)) >= 1]_vars

(***************************************************************************)
(* Properties of channels                                                 *)
(***************************************************************************)

\* the channels a dispatched message names
Names(msg) ==
    {msg.id} \cup (IF msg.name \in {"call.answered", "chan.connect"} THEN {msg.arg} ELSE {})

\* C4: once a channel is terminated, no later step dispatches a message that
\* names it (call.drop, call.route reply, call.answered, chan.connect,
\* chan.record, chan.attach).
C4_NoDispatchAfterTerminated ==
    [][\A i \in 1..Len(out') :
          \A c \in Names(out'[i].line) \cap ChanIds : ~chans[c].terminated]_vars

\* C5: on a terminated channel onsafe/oncesafe registers no listener; for an
\* event other than `end` it emits one error on the session; for `end` it
\* emits none and queues one next-tick call, and that call hands the handler
\* the channel's disconnect cause, once.
C5_SubscribeAfterTerminated ==
    [][/\ (op'.name = "onsafe" /\ chans[op'.c].terminated) =>
             /\ chans' = chans
             /\ IF op'.ev = "end"
                THEN err' = 0 /\ tick' = Append(tick, op'.c)
                ELSE err' = 1 /\ tick' = tick
       /\ (tick /= <<>> /\ tick' /= tick /\ Len(tick') <= Len(tick)) =>
             /\ tick' = Tail(tick)
             /\ chans' = chans
             /\ op' = [name |-> "tick", c |-> Head(tick),
                       cause |-> getDisconnectCause(chans, Head(tick))]]_vars

\* C5 witness: the late `end` handler of a terminated channel has run with a
\* disconnect cause
C5_Witness ==
    /\ op.name = "tick"
    /\ chans[op.c].terminated
    /\ chans[op.c].listeners = {}
    /\ op.cause = getDisconnectCause(chans, op.c)
    /\ op.cause /= NoCause

\* C6: for channels a and b that exist and have not terminated, a.peer = b
\* exactly when b.peer = a.
C6_PeerSymmetry ==
    \A a, b \in ChanIds :
        (Known(a) /\ Known(b) /\ ~chans[a].terminated /\ ~chans[b].terminated)
            => (chans[a].peer = b <=> chans[b].peer = a)

\* C7: a peer, once set, is not changed to another channel while the channel
\* is not terminated.
C7_PeerImmutable ==
    [][\A c \in ChanIds :
          (chans[c].peer /= NoPeer /\ ~chans'[c].terminated)
              => chans'[c].peer = chans[c].peer]_vars

C9_DurationImpliesNormal ==
    \A c \in ChanIds :
        getDuration(chans[c]) > 0 => getDisconnectCause(chans, c) = NormalCause

\* C9 witness: a channel of positive duration whose saved cause is not 200 and
\* whose peer has a saved cause
C9_Witness ==
    \E c \in ChanIds :
        /\ getDuration(chans[c]) > 0
        /\ chans[c].saved_cause.code /= 200
        /\ chans[c].peer /= NoPeer
        /\ chans[chans[c].peer].saved_cause /= NoCause

\* C12: every chan.attach of a queued sound is for the valid sound at the head
\* of the IVR queue, so the attaches follow the enqueue order and an invalid
\* item (here a tone without a positive ms) is never attached.
C12_AttachInQueueOrder ==
    [][\A i \in 1..Len(out') :
          LET m == out'[i].line IN
          (m.name = "chan.attach" /\ m.arg \in {AttachArg(x) : x \in Sounds}) =>
              /\ m.arg /= AttachArg("badtone")
              /\ chans'[m.id].queue /= <<>>
              /\ AttachArg(Head(chans'[m.id].queue)) = m.arg]_vars


\* the replies to the call.route of channel c among the lines o
RouteReplies(o, c) ==
    Cardinality({i \in 1..Len(o) : o[i].line.name = "call.route" /\ o[i].line.id = c})

\* C16: a step dispatches at most one reply to a channel's call.route, and
\* only for a channel that was not routed, which it leaves routed; routed is
\* never reset; routeToDestination or routeToIVR on a routing-mode channel
\* that is already routed or terminated emits an error, dispatches nothing,
\* registers no handler and changes no channel.
C16_RoutedOnce ==
    [][\A c \in ChanIds :
          /\ RouteReplies(out', c) <= 1
          /\ RouteReplies(out', c) = 1 => chans'[c].routed
          /\ chans[c].routed => (chans'[c].routed /\ RouteReplies(out', c) = 0)
          /\ (/\ op'.name \in {"routeToDestination", "routeToIVR"}
              /\ op'.c = c
              /\ chans[c].call_route
              /\ (chans[c].routed \/ chans[c].terminated)) =>
                 /\ err' = 1
                 /\ out' = <<>>
                 /\ handlers' = handlers
                 /\ chans' = chans]_vars

C16_Witness ==
    /\ op.name \in {"routeToDestination", "routeToIVR"}
    /\ chans[op.c].call_route
    /\ chans[op.c].routed
    /\ ~chans[op.c].terminated
    /\ err = 1
    /\ out = <<>>

\* C17: `end` is emitted at most once per channel; once a channel is
\* terminated it stays terminated, its disconnectTime is not written again
\* and `end` is not emitted again; _doTerminate called on a channel that has
\* a saved cause leaves that cause in place.
C17_TerminalOnce ==
    [][\A c \in ChanIds :
          /\ chans'[c].ended <= 1
          /\ chans[c].terminated =>
                /\ chans'[c].terminated
                /\ chans'[c].disconnectTime = chans[c].disconnectTime
                /\ chans'[c].ended = chans[c].ended
          /\ (chans[c].kind /= "none" /\ chans[c].saved_cause /= NoCause) =>
                \A m \in HangupMsgs :
                    doTerminate(S0, c, extract_cause(m)).ch[c].saved_cause
                        = chans[c].saved_cause]_vars

\* terminate() has run on a channel that a chan.hangup had terminated at an
\* earlier time
C17_Witness ==
    /\ op.name = "terminate"
    /\ chans[op.c].terminated
    /\ chans[op.c].ended = 1
    /\ chans[op.c].saved_cause /= DefaultCause
    /\ chans[op.c].disconnectTime < now
    /\ out = <<>>

\* C18: terminate(cause) on a live channel dispatches, in this order, one
\* processed=false reply if the channel is in routing mode and not routed,
\* and one call.drop with the cause text ('Request Terminated' without a
\* cause), and nothing else; on a terminated channel it dispatches nothing
\* and changes nothing.
C18_TerminateOnce ==
    [][op'.name = "terminate" =>
          LET c == op'.c
              cause == IF op'.cause = NoCause THEN DefaultCause ELSE op'.cause
          IN IF chans[c].terminated
             THEN /\ out' = <<>>
                  /\ err' = 0
                  /\ chans' = chans
                  /\ handlers' = handlers
                  /\ tick' = tick
             ELSE /\ chans'[c].terminated
                  /\ Dispatched(out') =
                        (IF chans[c].call_route /\ ~chans[c].routed
                         THEN <<Line("call.route", c, "false")>> ELSE <<>>)
                        \o <<Line("call.drop", c, cause.text)>>]_vars

C18_Witness ==
    /\ op.name = "terminate"
    /\ op.cause = NoCause
    /\ Dispatched(out) = <<Line("call.route", op.c, "false"),
                           Line("call.drop", op.c, "Request Terminated")>>

(***************************************************************************)
(* Properties of outgoing calls.                                           *)
(***************************************************************************)

\* C13: when the 5 s timer of a makeCall fires and no call.route has consumed
\* its entry, the entry is removed from the outgoing-call table, one error is
\* emitted, the callback handed to that makeCall is called with the timeout
\* error, and no channel object is created and nothing is dispatched.
C13_InitTimeout ==
    [][\A t \in call_timers :
          (op'.name = "call-timeout" /\ op'.id = t.id /\ t \notin call_timers'
              /\ outgoing_calls[t.id] /= NoDest) =>
                /\ outgoing_calls'[t.id] = NoDest
                /\ err' = 1
                /\ op'.error = "outgoing call init timeout"
                /\ op'.cb = t.callback
                /\ chans' = chans
                /\ out' = <<>>]_vars

C13_Witness ==
    /\ op.name = "call-timeout"
    /\ err = 1
    /\ op.cb /= NoCallback
    /\ outgoing_calls[op.id] = NoDest

\* C14: a call.route with caller 'dumb/' whose callername names an outstanding
\* makeCall removes the entry, creates a routed IVR in routing mode on
\* call_route.id with exactly one reply (the fork reply), emits outgoing-call
\* with the stored destination and calls the callback handed to that makeCall;
\* a call.route whose callername has no entry is replied false with one error
\* and creates no channel.
C14_RouteConsumesEntry ==
    [][op'.name = "call.route" =>
          LET n == op'.callername IN
          IF outgoing_calls[n] /= NoDest
          THEN /\ outgoing_calls'[n] = NoDest
               /\ chans'[op'.ivr].kind = "IVR"
               /\ chans'[op'.ivr].call_route
               /\ chans'[op'.ivr].routed
               /\ Dispatched(out') = <<Line("call.route", op'.ivr, "fork")>>
               /\ op'.event = "outgoing-call"
               /\ op'.dest = outgoing_calls[n]
               /\ \A t \in call_timers : t.id = n => op'.cb = t.callback
          ELSE /\ Len(out') = 1
               /\ out'[1].line.name = "call.route" /\ out'[1].line.arg = "false"
               /\ err' = 1
               /\ chans' = chans]_vars


(***************************************************************************)
(* Properties of fork.                                                     *)
(***************************************************************************)

Separators == {"|"} \cup {"|drop=" \o ToString(t + 3000) : t \in ForwardTimeouts}

\* C15: the fork params name callfork and stop on busy, and their callto
\* entries are, in list order, one target per route of the list, the target
\* of every route but the first directly preceded by that route's separator.
C15_OneTargetPerRoute ==
    fp /= NoFork =>
        /\ fp.retvalue = "fork"
        /\ fp.stop = "busy"
        /\ SelectSeq(fp.callto, LAMBDA x : x \notin Separators)
              = [k \in 1..Len(routes) |-> Target(routes[k], Called)]
        /\ Len(fp.callto) = 2 * Len(routes) - 1
        /\ \A k \in 2..Len(routes) :
              /\ fp.callto[2 * k - 2] = Separator(routes[k])
              /\ fp.callto[2 * k - 1] = Target(routes[k], Called)


(***************************************************************************)
(* Properties of user.auth.                                                *)
(***************************************************************************)

\* C19: a user.auth with newcall=true for a registered user that has not
\* expired, with allowUnregistered off and an authenticator set, is answered
\* by exactly one processed=true reply, the authenticator is not called, no
\* timer or promise is left that could reply, and the request never gets a
\* second reply.
C19_ShortCircuit ==
    [][\A a \in AuthIds :
          /\ (op'.name = "user.auth" /\ op'.a = a /\ auths'[a].shortcut) =>
                /\ Dispatched(out') = <<Line("user.auth", a, "true")>>
                /\ auths'[a].invoked = 0
                /\ ~auths'[a].pending
                /\ auths'[a].promise = "none"
          /\ auths'[a].shortcut => Len(auths'[a].replies) <= 1]_vars

\* C20: when the timer of the callback mode fires, exactly one
\* processed=false reply is dispatched and one error is emitted; a deferred
\* done(result) that runs after the timer has fired or was cleared
\* dispatches nothing; a done(result) that runs while the timer is set
\* replies once and cancels the timer; done and the timer together reply at
\* most once to a request.
C20_CallbackTimeout ==
    [][\A a \in AuthIds :
          /\ (op'.name = "auth-timeout" /\ op'.a = a) =>
                /\ Dispatched(out') = <<Line("user.auth", a, "false")>>
                /\ err' = 1
                /\ ~auths'[a].pending
          /\ (op'.name = "done" /\ op'.a = a /\ auths[a].timer /= "set") =>
                /\ out' = <<>>
                /\ auths'[a].replies = auths[a].replies
          /\ (op'.name = "done" /\ op'.a = a /\ auths[a].timer = "set"
                /\ auths[a].promise = "none") =>
                /\ Dispatched(out') =
                      <<Line("user.auth", a, IF op'.result THEN "true" ELSE "false")>>
                /\ ~auths'[a].pending
          /\ auths'[a].late <= 1]_vars

\* the timer fired first and a done(result) ran after it
C20_Witness ==
    \E a \in AuthIds :
        /\ op.name = "done"
        /\ op.a = a
        /\ auths[a].late = 1
        /\ auths[a].replies = <<FALSE>>
        /\ auths[a].invoked = 1
        /\ out = <<>>

\* a done(result) ran before the timer and cancelled it
C20_WitnessCancelled ==
    \E a \in AuthIds :
        /\ op.name = "done"
        /\ op.a = a
        /\ op.result
        /\ auths[a].replies = <<TRUE>>
        /\ auths[a].timer = "null"
        /\ ~auths[a].pending


\* C21: getLocalRoute returns a route only for a stored user that has not
\* expired and then changes nothing; for a stored user that has expired it
\* deletes the user, emits user-expired once and returns null; for a name
\* that is not stored it returns null, emits nothing and changes nothing;
\* a name that is not stored becomes stored only by user.register.
C21_LocalRouteHonoursExpiry ==
    [][\A u \in Usernames :
          /\ (op'.name = "getLocalRoute" /\ op'.a = u) =>
                /\ op'.route /= NoRoute =>
                      /\ users[u].stored /\ notExpired(users[u])
                      /\ op'.route.called = u
                      /\ op'.expired = 0
                      /\ users' = users
                /\ (users[u].stored /\ ~notExpired(users[u])) =>
                      /\ op'.route = NoRoute
                      /\ op'.expired = 1
                      /\ users'[u] = NoUser
                /\ (users[u].stored /\ notExpired(users[u])) => op'.route /= NoRoute
                /\ ~users[u].stored =>
                      /\ op'.route = NoRoute
                      /\ op'.expired = 0
                      /\ users' = users
          /\ (~users[u].stored /\ users'[u].stored) => op'.name = "user.register"]_vars

\* a lookup has found the name deleted by an earlier lookup that saw it expired
C21_Witness ==
    \E u \in Usernames :
        /\ op.name = "getLocalRoute"
        /\ op.a = u
        /\ op.expired = 1
        /\ ~users[u].stored
        /\ now > 1

(***************************************************************************)
(* Properties of the wire format                                           *)
(***************************************************************************)

\* "a%zb%%c%J"
ExampleEscaped == <<97, 37, 122, 98, 37, 37, 99, 37, 74>>

\* C25: what escape returns holds no ':' and no byte below 0x20, unescape of
\* it is the string that was escaped, and escape("a:b%c\n") is "a%zb%%c%J".
C25_EscapeRoundTrip ==
    [][/\ cout'.fn = "escape" =>
             /\ \A i \in 1..Len(cout'.value) :
                    cout'.value[i] /= 58 /\ cout'.value[i] >= 32
             /\ cout'.arg = Example => cout'.value = ExampleEscaped
       /\ (cout.fn = "escape" /\ cout'.fn = "unescape" /\ cout'.arg = cout.value) =>
             cout'.value = cout.arg]_vars

\* "a:b%c\n" was escaped and what escape returned was unescaped
C25_Witness ==
    /\ cout.fn = "unescape"
    /\ str = Example
    /\ cout.arg = ExampleEscaped
    /\ cout.value = Example

\* the string ends in a '%' and holds no other '%'
LonePercent(s) ==
    /\ Len(s) > 0
    /\ s[Len(s)] = 37
    /\ \A i \in 1..(Len(s) - 1) : s[i] /= 37

\* C26: unescape of a string that ends in a lone '%' returns the string
\* itself, the '%' kept as it is.
C26_LonePercentKept ==
    (cout.fn = "unescape" /\ LonePercent(cout.arg)) => cout.value = cout.arg

\* the message with its undefined parameters and its `handlers` left out
Stripped(m) ==
    [m EXCEPT !.params = {m.params[i] : i \in {j \in 1..Len(m.params) :
                              /\ m.params[j].value /= Undefined
                              /\ m.params[j].key /= Handlers}}]

\* C27: decode_message of the split line encode_message returned is the
\* message that was encoded, without its undefined parameters and without
\* `handlers`; a value that holds '=' comes back as it was.
C27_MessageRoundTrip ==
    cout.fn = "decode" => cout.value = Stripped(message)

(***************************************************************************)
(* Properties of the fan-out                                               *)
(***************************************************************************)

\* the handlers subscribed for chan+'_'+event, in subscription order
Subscribed(chan, event) == SelectSeq(handlers[chan], LAMBDA hd : hd.ev = event)

\* the step called the handlers that were subscribed for the key, first and
\* in subscription order
RanInOrder(chan, event) ==
    /\ Len(ran') >= Len(Subscribed(chan, event))
    /\ \A i \in 1..Len(Subscribed(chan, event)) :
          ran'[i] = [chan |-> chan, ev |-> event, fn |-> Subscribed(chan, event)[i].fn]

\* C28: chan.hangup for a channel calls its onHangup handlers and leaves the
\* table without any subscription of that channel, those made during the
\* calls included; a message for a channel without subscriptions calls no
\* handler of that channel.
C28_HangupClears ==
    [][/\ op'.name = "chan.hangup" =>
             /\ RanInOrder(op'.id, "onHangup")
             /\ \A i \in 1..Len(ran') : ran'[i].chan = op'.id /\ ran'[i].ev = "onHangup"
             /\ handlers'[op'.id] = <<>>
       /\ \A X \in ChanIds :
             handlers[X] = <<>> => \A i \in 1..Len(ran') : ran'[i].chan /= X]_vars

\* C29: chan.notify and chan.hangup call the handlers of the key in
\* subscription order, and every handler that throws gives one 'error' while
\* the handlers after it are called all the same.
C29_FanoutOrder ==
    [][op'.name \in {"chan.notify", "chan.hangup"} =>
          /\ RanInOrder(op'.id, IF op'.name = "chan.notify" THEN "onNotify" ELSE "onHangup")
          /\ err' >= Cardinality({i \in 1..Len(ran') : ran'[i].fn = "host.throws"})]_vars

\* a handler threw and the handler subscribed after it was called
C29_Witness ==
    /\ op.name = "chan.notify"
    /\ err >= 1
    /\ \E i, j \in 1..Len(ran) :
          /\ i < j
          /\ ran[i].fn = "host.throws"
          /\ ran[j].fn = "host.noop"

\* C30: chan.hangup for an IVR that is not terminated empties its queue and
\* emits 'queue-empty' while the listeners are still there (the pending tone
\* timers are cleared by them), the onHangup handler of the IVR running
\* before the one of Channel that emits 'end' and removes the listeners.
C30_QueueEmptyBeforeEnd ==
    [][(/\ op'.name = "chan.hangup"
        /\ chans[op'.id].kind = "IVR"
        /\ ~chans[op'.id].terminated) =>
          /\ chans'[op'.id].queue = <<>>
          /\ chans'[op'.id].toneTimers = 0
          /\ chans'[op'.id].ended = chans[op'.id].ended + 1
          /\ chans'[op'.id].listeners = {}
          /\ \E i, j \in 1..Len(ran') :
                /\ i < j
                /\ ran'[i].fn = "IVR.onHangup"
                /\ ran'[j].fn = "Channel.onHangup"]_vars

\* chan.hangup came for an IVR with a queued tone and its timer pending
C30_Witness ==
    /\ op.name = "chan.hangup"
    /\ chans[op.id].kind = "IVR"
    /\ op.queued > 0
    /\ op.timers > 0
    /\ chans[op.id].ended = 1
    /\ chans[op.id].queue = <<>>
    /\ chans[op.id].toneTimers = 0

(***************************************************************************)
(* Properties of the IVR queue, of the fork legs and of the causes         *)
(***************************************************************************)

\* the chan.attach of source arg on channel c is among the lines o
Attached(o, c, arg) ==
    \E i \in 1..Len(o) : o[i].line = Line("chan.attach", c, arg)

\* chan.notify arrives for an IVR that is not terminated and has a queue
NotifyOnQueue ==
    /\ op'.name = "chan.notify"
    /\ chans[op'.id].kind = "IVR"
    /\ ~chans[op'.id].terminated
    /\ chans[op'.id].queue /= <<>>

\* C31: when the onNotify of a live IVR leaves the queue empty, silence is
\* attached and 'queue-empty' is emitted (its listeners clear the pending
\* tone timers); when it leaves the queue with items, the item at the head
\* is attached.
C31_SilenceWhenDrained ==
    [][NotifyOnQueue =>
          IF chans'[op'.id].queue = <<>>
          THEN /\ Attached(out', op'.id, "tone/silence")
               /\ chans'[op'.id].toneTimers = 0
          ELSE Attached(out', op'.id, AttachArg(Head(chans'[op'.id].queue)))]_vars

\* the number of chan.attach of queued items on channel c among the lines o
QueuedAttaches(o, c) ==
    Cardinality({i \in 1..Len(o) :
                    /\ o[i].line.name = "chan.attach"
                    /\ o[i].line.id = c
                    /\ o[i].line.arg \in {AttachArg(x) : x \in Sounds}})

\* C32: a step attaches at most one queued item on a channel, and it attaches
\* one while an earlier one is playing only if the onNotify handler of the
\* IVR has run in that step.
C32_OnePlaying ==
    [][\A c \in ChanIds :
          /\ QueuedAttaches(out', c) <= 1
          /\ (QueuedAttaches(out', c) = 1 /\ chans[c].playing) =>
                \E i \in 1..Len(ran') :
                    ran'[i] = [chan |-> c, ev |-> "onNotify", fn |-> "IVR.onNotify"]]_vars

\* chan.connected arrives for a fork leg with the routed channel as peerid
ForkConnected ==
    /\ op'.name = "chan.connected"
    /\ \E i \in 1..Len(handlers[op'.id]) :
          /\ handlers[op'.id][i].fn = "fork.onConnected"
          /\ handlers[op'.id][i].call = op'.peerid
    /\ ~chans[op'.id].terminated
    /\ ~chans[op'.peerid].terminated

\* C33: the first chan.connected of a fork leg that names the routed channel
\* makes the two channels peers, sets connectTime on both, arms the timer of
\* the fork channel and emits 'peer' on both; a later one emits no 'peer',
\* leaves connectTime and the timer as they are.
C33_BindOnce ==
    [][ForkConnected =>
          LET fork_channel == op'.id
              parent == op'.peerid
          IN IF chans[fork_channel].connectTime = 0
             THEN /\ chans'[fork_channel].peer = parent
                  /\ chans'[parent].peer = fork_channel
                  /\ chans'[fork_channel].connectTime = now
                  /\ chans'[parent].connectTime = now
                  /\ chans'[fork_channel].timer
                  /\ chans'[fork_channel].peered = chans[fork_channel].peered + 1
                  /\ chans'[parent].peered = chans[parent].peered + 1
             ELSE /\ chans'[fork_channel].connectTime = chans[fork_channel].connectTime
                  /\ chans'[parent].connectTime = chans[parent].connectTime
                  /\ chans'[fork_channel].timer = chans[fork_channel].timer
                  /\ chans'[fork_channel].peered = chans[fork_channel].peered
                  /\ chans'[parent].peered = chans[parent].peered]_vars

\* the routed channels whose fork leg is channel f
ParentsOf(f) ==
    {handlers[f][i].call : i \in {j \in 1..Len(handlers[f]) : handlers[f][j].fn = "fork.onHangup"}}

\* the cause 486
BusyHere == [code |-> 486, text |-> "Busy Here"]

\* C34: chan.hangup of a fork leg stores the cause extracted from it as the
\* saved cause of the routed channel; with the code 486 the routed channel is
\* terminated (a live one emits `end` and is dropped with call.drop), and a
\* routed channel that never connected reports 486 'Busy Here'.
C34_ForkHangup ==
    [][op'.name = "chan.hangup" =>
          \A p \in ParentsOf(op'.id) :
              /\ chans'[p].saved_cause = extract_cause(op'.hangup)
              /\ extract_cause(op'.hangup).code = 486 =>
                    /\ chans'[p].terminated
                    /\ ~chans[p].terminated =>
                          /\ chans'[p].ended = chans[p].ended + 1
                          /\ \E i \in 1..Len(out') :
                                out'[i].line.name = "call.drop" /\ out'[i].line.id = p
                          /\ chans[p].connectTime = 0 => chans'[p].end_cause = BusyHere
                    /\ chans[p].connectTime = 0 =>
                          getDisconnectCause(chans', p) = BusyHere]_vars

\* a fork leg hung up with 'Busy Here' and the routed channel, which never
\* connected, ended with that cause
C34_Witness ==
    /\ op.name = "chan.hangup"
    /\ op.hangup.reason = "Busy Here"
    /\ \E i \in 1..Len(ran) : ran[i].fn = "fork.onHangup"
    /\ \E p \in ChanIds \ {op.id} :
          /\ chans[p].terminated
          /\ chans[p].ended = 1
          /\ chans[p].connectTime = 0
          /\ chans[p].end_cause = BusyHere
          /\ chans[p].saved_cause = BusyHere

\* the cause the channel with the fields own reports at duration 0 when its
\* peer has the saved cause peer_cause (NoCause without a peer)
Reconciled(own, peer_cause) ==
    IF own.saved_cause.code = 487 /\ peer_cause /= NoCause THEN peer_cause
    ELSE own.saved_cause

\* the saved cause of the peer of channel c in the table ch
PeerCause(ch, c) ==
    IF ch[c].peer = NoPeer THEN NoCause ELSE ch[ch[c].peer].saved_cause

\* C35: a terminated channel of duration 0 reports the saved cause of its
\* peer when its own code is 487 and the peer has a saved cause, and its own
\* saved cause in every other case: so for the cause handed to a late `end`
\* subscriber, and so for the cause of the `end` that terminate() or the
\* chan.hangup of the channel emits.
C35_CauseOrder ==
    [][/\ (op'.name = "tick" /\ getDuration(chans[op'.c]) = 0) =>
             op'.cause = Reconciled(chans[op'.c], PeerCause(chans, op'.c))
       /\ \A c \in ChanIds :
             (/\ \/ op'.name = "chan.hangup" /\ op'.id = c
                 \/ op'.name = "terminate" /\ op'.c = c
              /\ chans'[c].ended = chans[c].ended + 1
              /\ getDuration(chans'[c]) = 0) =>
                chans'[c].end_cause = Reconciled(chans'[c], PeerCause(chans, c))]_vars

\* a channel hung up with the code 487 and its `end` carried the saved cause
\* of its peer
C35_Witness ==
    /\ op.name = "chan.hangup"
    /\ chans[op.id].ended = 1
    /\ getDuration(chans[op.id]) = 0
    /\ chans[op.id].saved_cause.code = 487
    /\ chans[op.id].peer /= NoPeer
    /\ chans[op.id].end_cause = chans[chans[op.id].peer].saved_cause
    /\ chans[op.id].end_cause /= chans[op.id].saved_cause

\* C36: the call.route of a channel is answered at most once, by a step that
\* finds the channel not routed and leaves it routed, and a terminated
\* channel that was created for a call.route has been answered.
C36_RepliedWhenTerminated ==
    [][\A c \in ChanIds :
          /\ RouteReplies(out', c) <= 1
          /\ RouteReplies(out', c) = 1 => (~chans[c].routed /\ chans'[c].routed)
          /\ (chans'[c].call_route /\ chans'[c].terminated) => chans'[c].routed]_vars


\* C37: the user.auth handler of the current code sends at most one reply
\* frame for a request, whatever the authenticator does: done() once or
\* several times, done() and a returned promise, a promise that settles
\* before or after authenticateTimeout, an authenticator that throws.
C37_AtMostOneReply ==
    variant = "current" => \A a \in AuthIds : Len(auths[a].replies) <= 1

\* the callback mode and the throwing authenticator alone
C37_CallbackModes ==
    variant = "current" =>
        \A a \in AuthIds : auths[a].promise = "none" => Len(auths[a].replies) <= 1

\* the promise was resolved after .timeout() had rejected
C37_RepliedTwice ==
    /\ variant = "current"
    /\ \E a \in AuthIds :
          /\ op.name = "promise"
          /\ op.a = a
          /\ Len(auths[a].replies) = 2
          /\ auths[a].replies[1] = FALSE

\* _init_complete is set with every 'connected' (Misc.js 534-535) and cleared
\* with every 'disconnected' (Misc.js 556-557, 585-586) and nowhere else: it
\* is TRUE exactly when the last of the two events emitted was 'connected'
LastWasConnected == init_complete

\* the step emits 'connected' this many times
ConnectedEvents == connectedEmitted' - connectedEmitted

\* C38: 'connected' is never emitted twice in a row: a step emits it at most
\* once, and only when the last 'connected' was followed by a
\* 'disconnected' (or none was emitted yet).
C38_ConnectedAlternates ==
    [][ConnectedEvents > 0 => (ConnectedEvents = 1 /\ ~LastWasConnected)]_vars

\* one confirmation emits 'connected' at most once, a socket close has
\* cleared _init_complete, and the reconnect timer dials only after a
\* 'disconnected'
C38_OncePerConfirmation ==
    [][/\ ConnectedEvents <= 1
       /\ op'.name = "socket-close" => ~init_complete'
       /\ op'.name = "reconnect" => ~init_complete]_vars


\* C39: the cause of a terminated channel is stable: whenever a channel has
\* emitted 'end', getDisconnectCause() yields the cause that 'end' carried,
\* and so does the deferred call of an 'end' handler subscribed late with
\* onsafe.
C39_CauseStable ==
    /\ \A c \in ChanIds :
          (chans[c].terminated /\ chans[c].ended > 0) =>
              getDisconnectCause(chans, c) = chans[c].end_cause
    /\ op.name = "tick" => op.cause = chans[op.c].end_cause


\* the callback handed to the makeCall that generated the id n
CallbackOf(n) ==
    IF \E t \in call_timers : t.id = n
    THEN (CHOOSE t \in call_timers : t.id = n).callback
    ELSE NoCallback

\* C40: the callback handed to a makeCall is called exactly once: by the
\* call.route that consumes the call's entry, or by the call's timer if the
\* entry is still there when it fires; a step calls no other callback than
\* the one of the entry it consumes, an entry once consumed stays consumed,
\* and a timer that finds its entry consumed calls nothing and emits no
\* error.
C40_CallbackOnce ==
    [][/\ (op'.name = "call.route" /\ outgoing_calls[op'.callername] /= NoDest) =>
              op'.cb = CallbackOf(op'.callername)
       /\ (op'.name = "call-timeout" /\ outgoing_calls[op'.id] /= NoDest) =>
              (op'.cb = CallbackOf(op'.id) /\ err' = 1)
       /\ (op'.name = "call-timeout" /\ outgoing_calls[op'.id] = NoDest) =>
              (op'.cb = NoCallback /\ err' = 0)
       /\ (op'.name = "call.route" /\ outgoing_calls[op'.callername] = NoDest) =>
              op'.cb = NoCallback
       /\ \A k \in 0..(MaxCalls - 1) :
              (k < next_id /\ outgoing_calls[makeId(k)] = NoDest) =>
                  outgoing_calls'[makeId(k)] = NoDest]_vars

\* the timer fires after call.route has consumed the entry
C40_TimerAfterRoute ==
    [][(op'.name = "call-timeout" /\ outgoing_calls[op'.id] = NoDest) =>
           (op'.cb = NoCallback /\ err' = 0 /\ outgoing_calls' = outgoing_calls)]_vars

====
